---- MODULE Spec2Model ----
(***************************************************************************)
(* A model of eth-validator-watcher (Go): the attestation attribution      *)
(* engine (pkg/duties), the watched-validator registry (pkg/validator),    *)
(* the label aggregation (pkg/metrics/compute.go), the counter exposition  *)
(* (pkg/metrics/prometheus.go) and the per-slot pass of the orchestrator   *)
(* (pkg/watcher/watcher.go).                                               *)
(*                                                                         *)
(* Strings that the code parses are sequences of one-character strings,    *)
(* so that hex decoding and decimal parsing are computed, not assumed.     *)
(***************************************************************************)
EXTENDS Integers, Sequences, FiniteSets, TLC

VARIABLES
    pc,            \* position of the main loop (watcher.go mainLoop)
    slot,          \* currentSlot of the running iteration
    iter,          \* number of iterations started
    watched,       \* WatchedValidators.validators: index -> WatchedValidator
    duties,        \* proposer.Schedule.duties: slot -> validator index
    counterState,  \* PrometheusMetrics.counterState: scope -> last seen totals
    exported,      \* the exported Prometheus counters: scope -> values
    allValidators, \* AllValidators: the last loaded snapshot of the network
    bg,            \* background snapshot loads started and not yet finished
    obs,           \* what the last step requested and received
    args,          \* input of the pure function under check
    ret,           \* its result, or the value a returned procedure gave
    clock,         \* w.clock: <<>> for nil, else <<the BeaconClock>>
    ctx,           \* the context of Run: TRUE once it is cancelled
    ready          \* ValidatorWatcher.ready, the flag behind /ready

vars == <<pc, slot, iter, watched, duties, counterState, exported,
          allValidators, bg, obs, args, ret, clock, ctx, ready>>

(***************************************************************************)
(* Generic helpers                                                         *)
(***************************************************************************)
Range(s) == {s[i] : i \in 1..Len(s)}

RECURSIVE SumOver(_, _)
SumOver(S, f) ==
    IF S = {} THEN 0
    ELSE LET x == CHOOSE y \in S : TRUE IN f[x] + SumOver(S \ {x}, f)

RECURSIVE SumSeq(_)
SumSeq(s) == IF s = <<>> THEN 0 ELSE Head(s) + SumSeq(Tail(s))

Pow2(n) == 2 ^ n

(***************************************************************************)
(* pkg/duties: bit vector decoding                                         *)
(***************************************************************************)
\* encoding/hex: the value of one hex character, -1 for any other character
HexDigit(c) ==
    CASE c = "0" -> 0  [] c = "1" -> 1  [] c = "2" -> 2  [] c = "3" -> 3
      [] c = "4" -> 4  [] c = "5" -> 5  [] c = "6" -> 6  [] c = "7" -> 7
      [] c = "8" -> 8  [] c = "9" -> 9  [] c = "a" -> 10 [] c = "b" -> 11
      [] c = "c" -> 12 [] c = "d" -> 13 [] c = "e" -> 14 [] c = "f" -> 15
      [] c = "A" -> 10 [] c = "B" -> 11 [] c = "C" -> 12 [] c = "D" -> 13
      [] c = "E" -> 14 [] c = "F" -> 15
      [] OTHER -> -1

\* strings.TrimPrefix(s, "0x")
TrimPrefix0x(s) ==
    IF Len(s) >= 2 /\ s[1] = "0" /\ s[2] = "x" THEN SubSeq(s, 3, Len(s)) ELSE s

\* hex.DecodeString: an odd length or a non-hex character is an error
HexDecodeString(s) ==
    IF Len(s) % 2 = 1 \/ \E i \in 1..Len(s) : HexDigit(s[i]) < 0
    THEN [ok |-> FALSE, bytes |-> <<>>]
    ELSE [ok |-> TRUE,
          bytes |-> [i \in 1..(Len(s) \div 2) |->
                        16 * HexDigit(s[2 * i - 1]) + HexDigit(s[2 * i])]]

\* the bits of a byte counted from its most significant end
BitOfByteMsbFirst(b, j) == (b \div Pow2(7 - j)) % 2 = 1

\* b & (1 << j) != 0
BitOfByte(b, j) == (b \div Pow2(j)) % 2 = 1

\* DecodeBitVector: the set positions below size, LSB first within each byte
DecodeBitVector(bitVectorHex, size) ==
    LET dec == HexDecodeString(TrimPrefix0x(bitVectorHex)) IN
    IF ~dec.ok THEN [ok |-> FALSE, bits |-> {}]
    ELSE [ok |-> TRUE,
          bits |-> {p \in 0..(8 * Len(dec.bytes) - 1) :
                      /\ p < size
                      /\ BitOfByte(dec.bytes[(p \div 8) + 1], p % 8)}]

\* fmt.Sscanf(str, "%d", &idx): the leading decimal digits; idx stays 0
\* when there is none
RECURSIVE ScanDigits(_, _)
ScanDigits(str, acc) ==
    IF str = <<>> \/ HexDigit(Head(str)) < 0 \/ HexDigit(Head(str)) > 9
    THEN acc
    ELSE ScanDigits(Tail(str), 10 * acc + HexDigit(Head(str)))

SscanfIndex(str) == ScanDigits(str, 0)

(***************************************************************************)
(* pkg/duties: ProcessAttestations                                         *)
(***************************************************************************)
MaxCommitteeIndex == 63

\* committeeMap[committee.Index] = committee, a later entry replacing an
\* earlier one of the same index
CommitteeMap(committees) ==
    [i \in {committees[k].Index : k \in 1..Len(committees)} |->
        LET last == CHOOSE k \in 1..Len(committees) :
                       /\ committees[k].Index = i
                       /\ \A m \in (k + 1)..Len(committees) : committees[m].Index # i
        IN committees[last]]

\* the committees selected by committeeBits that the roster holds, in
\* ascending index order (the loop committeeIndex := 0; < 64)
RECURSIVE ActiveFrom(_, _, _)
ActiveFrom(i, committeeBits, cmap) ==
    IF i > MaxCommitteeIndex THEN <<>>
    ELSE IF i \in committeeBits /\ i \in DOMAIN cmap
         THEN <<cmap[i]>> \o ActiveFrom(i + 1, committeeBits, cmap)
         ELSE ActiveFrom(i + 1, committeeBits, cmap)

ActiveCommittees(committeeBits, cmap) == ActiveFrom(0, committeeBits, cmap)

\* committeeOffset of the n-th active committee
CommitteeOffsetStuck(active, n) == 0

CommitteeOffset(active, n) ==
    SumSeq([m \in 1..(n - 1) |-> Len(active[m].Validators)])

\* the validators one attestation marks; ok = FALSE when a bit field of it
\* does not decode
AttestersOf(attestation, cmap) ==
    IF attestation.CommitteeBits = <<>> \/ attestation.CommitteeBits = <<"0", "x">>
    THEN \* pre-Electra: the single committee data.index
         IF attestation.Data.Index \notin DOMAIN cmap
         THEN [ok |-> TRUE, set |-> {}]
         ELSE LET committee == cmap[attestation.Data.Index]
                  dec == DecodeBitVector(attestation.AggregationBits,
                                         Len(committee.Validators))
              IN IF ~dec.ok THEN [ok |-> FALSE, set |-> {}]
                 ELSE [ok |-> TRUE,
                       set |-> {SscanfIndex(committee.Validators[pos + 1]) :
                                  pos \in {p \in dec.bits :
                                             p < Len(committee.Validators)}}]
    ELSE LET cb == DecodeBitVector(attestation.CommitteeBits, MaxCommitteeIndex + 1) IN
         IF ~cb.ok THEN [ok |-> FALSE, set |-> {}]
         ELSE LET active == ActiveCommittees(cb.bits, cmap)
                  total == SumSeq([m \in 1..Len(active) |-> Len(active[m].Validators)])
                  dec == DecodeBitVector(attestation.AggregationBits, total)
              IN IF Len(active) = 0 THEN [ok |-> TRUE, set |-> {}]
                 ELSE IF ~dec.ok THEN [ok |-> FALSE, set |-> {}]
                 ELSE [ok |-> TRUE,
                       set |-> {SscanfIndex(active[n].Validators[i + 1]) :
                                  <<n, i>> \in
                                    {q \in (1..Len(active)) \X (0..(total - 1)) :
                                       /\ q[2] < Len(active[q[1]].Validators)
                                       /\ (CommitteeOffset(active, q[1]) + q[2])
                                             \in dec.bits}}]

\* the loop over the attestations: the first undecodable one ends the call
\* with an error and no set
RECURSIVE AttestLoop(_, _, _)
AttestLoop(attestations, cmap, attested) ==
    IF attestations = <<>> THEN [ok |-> TRUE, attested |-> attested]
    ELSE LET one == AttestersOf(Head(attestations), cmap) IN
         IF ~one.ok THEN [ok |-> FALSE, attested |-> {}]
         ELSE AttestLoop(Tail(attestations), cmap, attested \cup one.set)

ProcessAttestations(attestations, committees) ==
    AttestLoop(attestations, CommitteeMap(committees), {})

(***************************************************************************)
(* pkg/validator: the watched registry                                     *)
(***************************************************************************)
\* the configured watched keys (config.WatchedKeys)
WatchedKeys ==
    << [PublicKey |-> "pk0", Labels |-> <<"operator:a">>],
       [PublicKey |-> "pk1", Labels |-> <<"operator:b">>],
       [PublicKey |-> "pk9", Labels |-> <<"operator:a">>] >>

\* effective balances are in ETH; stake-weighted values are kept in units of
\* 1/WeightScale, so that the weights 1.0 and 0.5 are the integers 2 and 1
FullStakeEth == 32

WeightScale == 2

\* a weight of 1.0 whatever the balance
WeightOfFullStake(effectiveBalance) == WeightScale

\* weight := float64(v.Data.EffectiveBalance) / 32_000_000_000.0
WeightOf(effectiveBalance) == (effectiveBalance * WeightScale) \div FullStakeEth

ScopeLabels == <<"scope:all-network", "scope:watched">>

\* configMap[wk.PublicKey] = wk, a later key replacing an earlier equal one
ConfigMap(config) ==
    [k \in {config[i].PublicKey : i \in 1..Len(config)} |->
        LET last == CHOOSE i \in 1..Len(config) :
                       /\ config[i].PublicKey = k
                       /\ \A j \in (i + 1)..Len(config) : config[j].PublicKey # k
        IN config[last]]

\* the labels of the configuration alone
UserLabelsOnly(cfg) == cfg.Labels

\* labels := []string{"scope:all-network", "scope:watched"};
\* labels = append(labels, cfg.Labels...)
BuildLabels(cfg) == ScopeLabels \o cfg.Labels

\* &WatchedValidator{Validator: v, Labels: labels, Weight: weight}
NewWatchedValidator(v, cfg) ==
    [Index |-> v.Index, Pubkey |-> v.Pubkey, Status |-> v.Status,
     EffectiveBalance |-> v.EffectiveBalance, Slashed |-> v.Slashed,
     WithdrawalCredentials |-> v.WithdrawalCredentials,
     Labels |-> BuildLabels(cfg),
     Weight |-> WeightOf(v.EffectiveBalance),
     MissedAttestations |-> 0, SuboptimalSourceVotes |-> 0,
     SuboptimalTargetVotes |-> 0, SuboptimalHeadVotes |-> 0,
     IdealConsensusRewards |-> 0, ConsensusRewards |-> 0,
     ProposedBlocks |-> 0, ProposedBlocksFinalized |-> 0,
     MissedBlocks |-> 0, MissedBlocksFinalized |-> 0,
     FutureBlockProposals |-> 0, AttestationDuties |-> 0,
     AttestationDutiesSuccess |-> 0, ConsecutiveMissedAttest |-> 0]

\* WatchedValidators.Update: the registry is rebuilt from the given
\* validators whose pubkey is configured; every counter starts at zero
WatchedUpdate(validators, config) ==
    LET cm == ConfigMap(config)
        kept == {i \in 1..Len(validators) : validators[i].Pubkey \in DOMAIN cm}
    IN [idx \in {validators[i].Index : i \in kept} |->
           LET last == CHOOSE i \in kept :
                          /\ validators[i].Index = idx
                          /\ \A j \in kept : j > i => validators[j].Index # idx
           IN NewWatchedValidator(validators[last], cm[validators[last].Pubkey])]

\* WatchedValidators.UpdateMetrics(index, fn): fn under the write lock, an
\* error and no change when the index is not watched; fn is given as the
\* map from a watched index to the mutated copy of its entry
UpdateMetrics(reg, index, fn) ==
    IF index \in DOMAIN reg THEN [reg EXCEPT ![index] = fn[index]] ELSE reg

\* WatchedValidators.ResetMetrics
ResetOne(wv) ==
    [wv EXCEPT !.MissedAttestations = 0, !.SuboptimalSourceVotes = 0,
               !.SuboptimalTargetVotes = 0, !.SuboptimalHeadVotes = 0,
               !.IdealConsensusRewards = 0, !.ConsensusRewards = 0,
               !.ProposedBlocks = 0, !.ProposedBlocksFinalized = 0,
               !.MissedBlocks = 0, !.MissedBlocksFinalized = 0,
               !.FutureBlockProposals = 0, !.AttestationDuties = 0,
               !.AttestationDutiesSuccess = 0, !.ConsecutiveMissedAttest = 0]

ResetMetrics(reg) == [i \in DOMAIN reg |-> ResetOne(reg[i])]

\* the mutators the orchestrator passes to UpdateMetrics
MarkProposedAndMissed(wv) ==
    [wv EXCEPT !.ProposedBlocks = @ + 1, !.MissedBlocks = @ + 1]

MarkMissedBlock(wv) == [wv EXCEPT !.MissedBlocks = @ + 1]

MarkProposed(wv) == [wv EXCEPT !.ProposedBlocks = @ + 1]

MarkAttestedNoDuty(wv) ==
    [wv EXCEPT !.AttestationDutiesSuccess = @ + 1,
               !.ConsecutiveMissedAttest = 0]

MarkAttested(wv) ==
    [wv EXCEPT !.AttestationDutiesSuccess = @ + 1,
               !.AttestationDuties = @ + 1,
               !.ConsecutiveMissedAttest = 0]

MarkMissedNoIncrement(wv) == [wv EXCEPT !.AttestationDuties = @ + 1]

MarkMissedAttestation(wv) ==
    [wv EXCEPT !.ConsecutiveMissedAttest = @ + 1,
               !.AttestationDuties = @ + 1]

MarkNotLive(wv) == [wv EXCEPT !.MissedAttestations = @ + 1]

(***************************************************************************)
(* pkg/metrics/compute.go: aggregation by label                            *)
(***************************************************************************)
ActiveStatuses == {"active_ongoing", "active_exiting", "active_slashed"}

\* isActive := v.Status == StatusActiveOngoing || ... ActiveExiting || ... ActiveSlashed
IsActive(v) == v.Status \in ActiveStatuses

\* a float64 rate as the exact fraction num/den; the zero value of the field
ZeroRate == [num |-> 0, den |-> 1]

\* float64(a) / float64(b): the fraction, NaN or an infinity when b is zero
FloatDiv(a, b) == [num |-> a, den |-> b]

\* getValidatorType: "0", "1" or "2" from the first byte of the withdrawal
\* credentials, "0" for anything else
GetValidatorType(withdrawalCredentials) ==
    IF Len(withdrawalCredentials) < 4 THEN "0"
    ELSE LET cleaned == TrimPrefix0x(withdrawalCredentials) IN
         IF Len(cleaned) < 2 THEN "0"
         ELSE LET firstByte == SubSeq(cleaned, 1, 2) IN
              CASE firstByte = <<"0", "0">> -> "0"
                [] firstByte = <<"0", "1">> -> "1"
                [] firstByte = <<"0", "2">> -> "2"
                [] OTHER -> "0"

\* the details kept for logging: at most this many per list
MaxDetails == 5

\* an append that never looks at the length of the list
AppendUncapped(details, detail) == Append(details, detail)

\* if len(details) < 5 { details = append(details, detail) }
AppendCapped(details, detail) ==
    IF Len(details) < MaxDetails THEN Append(details, detail) ELSE details

\* &MetricsByLabel{Label: label, StatusCounts: make(...), StatusStakes: make(...)}
EmptyMetrics(label) ==
    [Label |-> label, ValidatorCount |-> 0, StakeCount |-> 0,
     StatusCounts |-> <<>>, StatusStakes |-> <<>>,
     ValidatorTypeCounts |-> <<>>, ValidatorTypeStakes |-> <<>>,
     MissedAttestationDetails |-> <<>>, SuboptimalSourceDetails |-> <<>>,
     SuboptimalTargetDetails |-> <<>>, SuboptimalHeadDetails |-> <<>>,
     MissedBlockDetails |-> <<>>,
     SlashedCount |-> 0, SlashedStake |-> 0,
     MaxConsecutiveMissed |-> 0, MaxConsecutiveMissedStake |-> 0,
     MissedAttestations |-> 0, MissedAttestationsStake |-> 0,
     SuboptimalSourceVotes |-> 0, SuboptimalSourceVotesStake |-> 0,
     SuboptimalTargetVotes |-> 0, SuboptimalTargetVotesStake |-> 0,
     SuboptimalHeadVotes |-> 0, SuboptimalHeadVotesStake |-> 0,
     ProposedBlocks |-> 0, ProposedBlocksFinalized |-> 0,
     MissedBlocks |-> 0, MissedBlocksFinalized |-> 0,
     FutureBlockProposals |-> 0,
     IdealConsensusRewards |-> 0, ConsensusRewards |-> 0,
     AttestationDuties |-> 0, AttestationDutiesSuccess |-> 0,
     AttestationDutiesStake |-> 0,
     ConsensusRewardsRate |-> ZeroRate, AttestationDutiesRate |-> ZeroRate]

\* m[key] += n on a Go map: a missing key reads as zero
MapAdd(m, key, n) ==
    IF key \in DOMAIN m THEN [m EXCEPT ![key] = @ + n] ELSE (key :> n) @@ m

Max(a, b) == IF a > b THEN a ELSE b

\* the performance counters and the two block counters the code adds only
\* for an active validator (compute.go, if isActive)
AddActiveOnly(m, v) ==
    [m EXCEPT
       !.MissedAttestations = @ + v.MissedAttestations,
       !.MissedAttestationsStake = @ + v.MissedAttestations * v.Weight,
       !.SuboptimalSourceVotes = @ + v.SuboptimalSourceVotes,
       !.SuboptimalSourceVotesStake = @ + v.SuboptimalSourceVotes * v.Weight,
       !.SuboptimalTargetVotes = @ + v.SuboptimalTargetVotes,
       !.SuboptimalTargetVotesStake = @ + v.SuboptimalTargetVotes * v.Weight,
       !.SuboptimalHeadVotes = @ + v.SuboptimalHeadVotes,
       !.SuboptimalHeadVotesStake = @ + v.SuboptimalHeadVotes * v.Weight,
       !.MissedBlocksFinalized = @ + v.MissedBlocksFinalized,
       !.FutureBlockProposals = @ + v.FutureBlockProposals,
       !.IdealConsensusRewards = @ + v.IdealConsensusRewards,
       !.ConsensusRewards = @ + v.ConsensusRewards,
       !.AttestationDuties = @ + v.AttestationDuties,
       !.AttestationDutiesSuccess = @ + v.AttestationDutiesSuccess,
       !.AttestationDutiesStake = @ + v.AttestationDuties * v.Weight]

\* what the code adds for every validator whatever its status
AddAlways(m, v) ==
    [m EXCEPT
       !.ValidatorCount = @ + 1,
       !.StakeCount = @ + v.Weight,
       !.StatusCounts = MapAdd(@, v.Status, 1),
       !.StatusStakes = MapAdd(@, v.Status, v.Weight),
       !.ValidatorTypeCounts =
            MapAdd(@, GetValidatorType(v.WithdrawalCredentials), 1),
       !.ValidatorTypeStakes =
            MapAdd(@, GetValidatorType(v.WithdrawalCredentials), v.Weight),
       !.SlashedCount = IF v.Slashed THEN @ + 1 ELSE @,
       !.SlashedStake = IF v.Slashed THEN @ + v.Weight ELSE @,
       !.MaxConsecutiveMissed = Max(@, v.ConsecutiveMissedAttest),
       !.MaxConsecutiveMissedStake = Max(@, v.ConsecutiveMissedAttest * v.Weight),
       !.ProposedBlocks = @ + v.ProposedBlocks,
       !.ProposedBlocksFinalized = @ + v.ProposedBlocksFinalized,
       !.MissedBlocks = @ + v.MissedBlocks]

\* // Collect details (limited to 5 per label): a detail of the validator
\* on every list whose counter it has above zero
AddDetail(details, v, count) ==
    IF count > 0
    THEN AppendCapped(details, [Index |-> v.Index, Pubkey |-> v.Pubkey,
                                Value |-> count])
    ELSE details

AddDetails(m, v) ==
    [m EXCEPT
       !.MissedAttestationDetails = AddDetail(@, v, v.MissedAttestations),
       !.SuboptimalSourceDetails = AddDetail(@, v, v.SuboptimalSourceVotes),
       !.SuboptimalTargetDetails = AddDetail(@, v, v.SuboptimalTargetVotes),
       !.SuboptimalHeadDetails = AddDetail(@, v, v.SuboptimalHeadVotes),
       !.MissedBlockDetails = AddDetail(@, v, v.MissedBlocks)]

\* the body of the inner loop for one validator under one of its labels
AddValidator(m, v) ==
    AddDetails(IF IsActive(v) THEN AddActiveOnly(AddAlways(m, v), v)
               ELSE AddAlways(m, v),
               v)

\* for _, label := range v.Labels: one pass of the body per list entry
RECURSIVE AddUnderLabels(_, _, _)
AddUnderLabels(localMetrics, v, labels) ==
    IF labels = <<>> THEN localMetrics
    ELSE LET label == Head(labels) IN
         IF label \in DOMAIN localMetrics
         THEN AddUnderLabels([localMetrics EXCEPT ![label] = AddValidator(@, v)],
                             v, Tail(labels))
         ELSE AddUnderLabels((label :> AddValidator(EmptyMetrics(label), v))
                                @@ localMetrics,
                             v, Tail(labels))

\* one worker: for _, v := range chunk
RECURSIVE ReduceChunk(_, _)
ReduceChunk(localMetrics, chunk) ==
    IF chunk = <<>> THEN localMetrics
    ELSE ReduceChunk(AddUnderLabels(localMetrics, Head(chunk), Head(chunk).Labels),
                     Tail(chunk))

RECURSIVE MergeMap(_, _, _)
MergeMap(into, from, keys) ==
    IF keys = {} THEN into
    ELSE LET k == CHOOSE x \in keys : TRUE
         IN MergeMap(MapAdd(into, k, from[k]), from, keys \ {k})

\* // Merge details (keep first 5)
RECURSIVE MergeDetails(_, _)
MergeDetails(into, from) ==
    IF from = <<>> THEN into
    ELSE MergeDetails(AppendCapped(into, Head(from)), Tail(from))

\* the merge of one worker's record into the final record of the label
MergeRecord(fm, m) ==
    [fm EXCEPT
       !.ValidatorCount = @ + m.ValidatorCount,
       !.StakeCount = @ + m.StakeCount,
       !.MissedAttestations = @ + m.MissedAttestations,
       !.MissedAttestationsStake = @ + m.MissedAttestationsStake,
       !.SuboptimalSourceVotes = @ + m.SuboptimalSourceVotes,
       !.SuboptimalSourceVotesStake = @ + m.SuboptimalSourceVotesStake,
       !.SuboptimalTargetVotes = @ + m.SuboptimalTargetVotes,
       !.SuboptimalTargetVotesStake = @ + m.SuboptimalTargetVotesStake,
       !.SuboptimalHeadVotes = @ + m.SuboptimalHeadVotes,
       !.SuboptimalHeadVotesStake = @ + m.SuboptimalHeadVotesStake,
       !.ProposedBlocks = @ + m.ProposedBlocks,
       !.ProposedBlocksFinalized = @ + m.ProposedBlocksFinalized,
       !.MissedBlocks = @ + m.MissedBlocks,
       !.MissedBlocksFinalized = @ + m.MissedBlocksFinalized,
       !.FutureBlockProposals = @ + m.FutureBlockProposals,
       !.IdealConsensusRewards = @ + m.IdealConsensusRewards,
       !.ConsensusRewards = @ + m.ConsensusRewards,
       !.AttestationDuties = @ + m.AttestationDuties,
       !.AttestationDutiesSuccess = @ + m.AttestationDutiesSuccess,
       !.AttestationDutiesStake = @ + m.AttestationDutiesStake,
       !.SlashedCount = @ + m.SlashedCount,
       !.SlashedStake = @ + m.SlashedStake,
       !.MaxConsecutiveMissed = Max(@, m.MaxConsecutiveMissed),
       !.MaxConsecutiveMissedStake = Max(@, m.MaxConsecutiveMissedStake),
       !.StatusCounts = MergeMap(@, m.StatusCounts, DOMAIN m.StatusCounts),
       !.StatusStakes = MergeMap(@, m.StatusStakes, DOMAIN m.StatusStakes),
       !.ValidatorTypeCounts =
            MergeMap(@, m.ValidatorTypeCounts, DOMAIN m.ValidatorTypeCounts),
       !.ValidatorTypeStakes =
            MergeMap(@, m.ValidatorTypeStakes, DOMAIN m.ValidatorTypeStakes),
       !.MissedAttestationDetails = MergeDetails(@, m.MissedAttestationDetails),
       !.SuboptimalSourceDetails = MergeDetails(@, m.SuboptimalSourceDetails),
       !.SuboptimalTargetDetails = MergeDetails(@, m.SuboptimalTargetDetails),
       !.SuboptimalHeadDetails = MergeDetails(@, m.SuboptimalHeadDetails),
       !.MissedBlockDetails = MergeDetails(@, m.MissedBlockDetails)]

\* for label, metrics := range result.metrics
RECURSIVE MergeResult(_, _, _)
MergeResult(finalMetrics, localMetrics, labels) ==
    IF labels = {} THEN finalMetrics
    ELSE LET label == CHOOSE x \in labels : TRUE IN
         IF label \in DOMAIN finalMetrics
         THEN MergeResult([finalMetrics EXCEPT
                              ![label] = MergeRecord(@, localMetrics[label])],
                          localMetrics, labels \ {label})
         ELSE MergeResult((label :> MergeRecord(EmptyMetrics(label),
                                                localMetrics[label]))
                             @@ finalMetrics,
                          localMetrics, labels \ {label})

\* the chunks handed to the workers: chunkSize = ceil(len / numWorkers)
Chunks(validators, numWorkers) ==
    LET n == Len(validators)
        chunkSize == (n + numWorkers - 1) \div numWorkers
        started == {i \in 0..(numWorkers - 1) : i * chunkSize < n}
    IN [k \in 1..Cardinality(started) |->
           SubSeq(validators, (k - 1) * chunkSize + 1,
                  IF k * chunkSize > n THEN n ELSE k * chunkSize)]

RECURSIVE MergeAll(_, _)
MergeAll(finalMetrics, results) ==
    IF results = <<>> THEN finalMetrics
    ELSE MergeAll(MergeResult(finalMetrics, Head(results), DOMAIN Head(results)),
                  Tail(results))

\* the two divisions without their guards
CalculateRatesUnguarded(m) ==
    [m EXCEPT
       !.ConsensusRewardsRate =
            FloatDiv(m.ConsensusRewards, m.IdealConsensusRewards),
       !.AttestationDutiesRate =
            FloatDiv(m.AttestationDutiesSuccess, m.AttestationDuties)]

\* // Calculate rates: each rate is assigned under its guard and keeps its
\* zero value otherwise
CalculateRates(m) ==
    [m EXCEPT
       !.ConsensusRewardsRate =
            IF m.IdealConsensusRewards > 0
            THEN FloatDiv(m.ConsensusRewards, m.IdealConsensusRewards)
            ELSE @,
       !.AttestationDutiesRate =
            IF m.AttestationDuties > 0
            THEN FloatDiv(m.AttestationDutiesSuccess, m.AttestationDuties)
            ELSE @]

\* ComputeMetrics with runtime.NumCPU() = numWorkers
ComputeMetrics(validators, numWorkers) ==
    LET chunks == Chunks(validators, numWorkers)
        finalMetrics ==
            MergeAll(<<>>, [k \in 1..Len(chunks) |-> ReduceChunk(<<>>, chunks[k])])
    IN [label \in DOMAIN finalMetrics |-> CalculateRates(finalMetrics[label])]

\* ComputeNetworkMetrics: counts and stake of every validator of the network
RECURSIVE NetworkLoop(_, _)
NetworkLoop(m, allVals) ==
    IF allVals = <<>> THEN m
    ELSE LET v == Head(allVals)
             weight == WeightOf(v.EffectiveBalance)
         IN NetworkLoop(
              [m EXCEPT !.ValidatorCount = @ + 1,
                        !.StakeCount = @ + weight,
                        !.StatusCounts = MapAdd(@, v.Status, 1),
                        !.StatusStakes = MapAdd(@, v.Status, weight),
                        !.ValidatorTypeCounts =
                            MapAdd(@, GetValidatorType(v.WithdrawalCredentials), 1),
                        !.ValidatorTypeStakes =
                            MapAdd(@, GetValidatorType(v.WithdrawalCredentials),
                                   weight),
                        !.SlashedCount = IF v.Slashed THEN @ + 1 ELSE @,
                        !.SlashedStake = IF v.Slashed THEN @ + weight ELSE @],
              Tail(allVals))

ComputeNetworkMetrics(allVals) ==
    NetworkLoop(EmptyMetrics("scope:all-network"), allVals)

(***************************************************************************)
(* pkg/metrics/prometheus.go: the block counters                           *)
(***************************************************************************)
Network == "mainnet"

\* scopeKey := network + ":" + scope
ScopeKey(network, scope) == <<network, scope>>

CounterNames ==
    {"ProposedBlocks", "MissedBlocks", "ProposedBlocksFinalized",
     "MissedBlocksFinalized"}

\* the delta without the guard on a decrease
CounterDeltaUnguarded(exists, current, last) ==
    IF exists THEN current - last ELSE current

\* the delta of one counter: the growth since the last seen total, nothing
\* when the total went down, the total itself for a scope seen for the
\* first time
CounterDelta(exists, current, last) ==
    IF exists THEN (IF current >= last THEN current - last ELSE 0)
    ELSE current

\* a counter state that is written for a scope seen for the first time only
FirstSeenCounterState(state, metricsByLabel) ==
    LET keys == {ScopeKey(Network, l) : l \in DOMAIN metricsByLabel}
    IN [k \in DOMAIN state \cup keys |->
           IF k \in DOMAIN state
           THEN state[k]
           ELSE [c \in CounterNames |-> metricsByLabel[k[2]][c]]]

\* m.counterState[scopeKey] = counterValues{...} for every published label
NextCounterState(state, metricsByLabel) ==
    LET keys == {ScopeKey(Network, l) : l \in DOMAIN metricsByLabel}
    IN [k \in DOMAIN state \cup keys |->
           IF k \in keys
           THEN [c \in CounterNames |-> metricsByLabel[k[2]][c]]
           ELSE state[k]]

\* the four CounterVec.Add(delta) calls for every published label
NextExported(state, exp, metricsByLabel) ==
    LET keys == {ScopeKey(Network, l) : l \in DOMAIN metricsByLabel}
    IN [k \in DOMAIN exp \cup keys |->
           IF k \in keys
           THEN [c \in CounterNames |->
                   (IF k \in DOMAIN exp THEN exp[k][c] ELSE 0)
                   + CounterDelta(k \in DOMAIN state,
                                  metricsByLabel[k[2]][c],
                                  IF k \in DOMAIN state THEN state[k][c] ELSE 0)]
           ELSE exp[k]]

(***************************************************************************)
(* pkg/metrics/prometheus.go: the gauges of a scope                        *)
(***************************************************************************)
\* the gauge vectors UpdateMetrics empties before it writes (the Reset calls)
ResetGauges ==
    {"ValidatorStatusCount", "ValidatorStatusScaledCount",
     "ValidatorTypeCount", "ValidatorTypeScaledCount",
     "SlashedValidators", "MissedAttestations", "MissedAttestationsScaled",
     "SuboptimalSourcesRate", "SuboptimalTargetsRate", "SuboptimalHeadsRate",
     "FutureBlockProposals", "ConsensusRewardsRate", "DutiesRate",
     "DutiesRateScaled", "MissedConsecutiveAttestations",
     "MissedConsecutiveAttestationsScaled"}

\* the gauges written for every scope of the map, whatever its values
ScopeGauges ==
    {"SlashedValidators", "MissedAttestations", "MissedAttestationsScaled",
     "FutureBlockProposals", "IdealConsensusRewardsGwei",
     "ActualConsensusRewardsGwei", "ConsensusRewardsRate",
     "PerformedDutiesAtSlot", "MissedDutiesAtSlot",
     "PerformedDutiesAtSlotScaled", "MissedDutiesAtSlotScaled", "DutiesRate",
     "MissedConsecutiveAttestations", "MissedConsecutiveAttestationsScaled"}

\* stake / 32.0, the stake being kept in units of 1/WeightScale
Scaled(stake) == FloatDiv(stake, WeightScale * FullStakeEth)

\* the series one scope writes: <<gauge, scope, key>> for the gauges keyed
\* by status or by validator type, <<gauge, scope, "">> for the others; the three
\* suboptimal rates only when there were duties, the scaled duty rate only
\* when there was duty stake
GaugeSeries(scope, m) ==
    {<<"ValidatorStatusCount", scope, st>> : st \in DOMAIN m.StatusCounts}
    \cup {<<"ValidatorStatusScaledCount", scope, st>> : st \in DOMAIN m.StatusStakes}
    \cup {<<"ValidatorTypeCount", scope, t>> : t \in DOMAIN m.ValidatorTypeCounts}
    \cup {<<"ValidatorTypeScaledCount", scope, t>> : t \in DOMAIN m.ValidatorTypeStakes}
    \cup {<<g, scope, "">> : g \in ScopeGauges}
    \cup (IF m.AttestationDuties > 0
          THEN {<<g, scope, "">> : g \in {"SuboptimalSourcesRate",
                                          "SuboptimalTargetsRate",
                                          "SuboptimalHeadsRate"}}
          ELSE {})
    \cup (IF m.AttestationDutiesStake > 0
          THEN {<<"DutiesRateScaled", scope, "">>}
          ELSE {})

\* the value Set on a series
GaugeValue(g, m, st) ==
    CASE g = "ValidatorStatusCount" -> m.StatusCounts[st]
      [] g = "ValidatorStatusScaledCount" -> Scaled(m.StatusStakes[st])
      [] g = "ValidatorTypeCount" -> m.ValidatorTypeCounts[st]
      [] g = "ValidatorTypeScaledCount" -> Scaled(m.ValidatorTypeStakes[st])
      [] g = "SlashedValidators" -> m.SlashedCount
      [] g = "MissedAttestations" -> m.MissedAttestations
      [] g = "MissedAttestationsScaled" -> Scaled(m.MissedAttestationsStake)
      [] g = "SuboptimalSourcesRate" ->
            FloatDiv(m.SuboptimalSourceVotes, m.AttestationDuties)
      [] g = "SuboptimalTargetsRate" ->
            FloatDiv(m.SuboptimalTargetVotes, m.AttestationDuties)
      [] g = "SuboptimalHeadsRate" ->
            FloatDiv(m.SuboptimalHeadVotes, m.AttestationDuties)
      [] g = "FutureBlockProposals" -> m.FutureBlockProposals
      [] g = "IdealConsensusRewardsGwei" -> m.IdealConsensusRewards
      [] g = "ActualConsensusRewardsGwei" -> m.ConsensusRewards
      [] g = "ConsensusRewardsRate" -> m.ConsensusRewardsRate
      [] g = "PerformedDutiesAtSlot" -> m.AttestationDutiesSuccess
      [] g = "MissedDutiesAtSlot" ->
            m.AttestationDuties - m.AttestationDutiesSuccess
      [] g = "PerformedDutiesAtSlotScaled" ->
            FloatDiv(m.AttestationDutiesSuccess * m.StakeCount,
                     m.ValidatorCount * WeightScale * FullStakeEth)
      [] g = "MissedDutiesAtSlotScaled" ->
            FloatDiv((m.AttestationDuties - m.AttestationDutiesSuccess)
                        * m.StakeCount,
                     m.ValidatorCount * WeightScale * FullStakeEth)
      [] g = "DutiesRate" -> m.AttestationDutiesRate
      [] g = "DutiesRateScaled" ->
            FloatDiv(m.AttestationDutiesSuccess, m.AttestationDuties)
      [] g = "MissedConsecutiveAttestations" -> m.MaxConsecutiveMissed
      [] g = "MissedConsecutiveAttestationsScaled" ->
            Scaled(m.MaxConsecutiveMissedStake)

\* the samples of the scope gauges after UpdateMetrics: the Reset calls
\* drop every series of the listed vectors, then the loop over the map
\* writes the series of each of its scopes
NextGauges(gauges, metricsByLabel) ==
    LET kept == {k \in DOMAIN gauges : k[1] \notin ResetGauges}
        written == UNION {GaugeSeries(l, metricsByLabel[l]) :
                             l \in DOMAIN metricsByLabel}
    IN [k \in kept \cup written |->
           IF k \in written
           THEN GaugeValue(k[1], metricsByLabel[k[2]], k[3])
           ELSE gauges[k]]

(***************************************************************************)
(* pkg/clock and pkg/proposer                                              *)
(***************************************************************************)
SlotsPerEpoch == 32

SecondsPerSlot == 12

\* genesis.GenesisTime, in seconds
GenesisTime == 24

\* a *uint64 of the configuration: <<>> for nil, <<v>> for a pointer to v
NilTS == <<>>

\* NewBeaconClock: replayMode false, no replay timestamps
NewBeaconClock ==
    [genesisTime |-> GenesisTime, replayMode |-> FALSE,
     replayStartTS |-> NilTS, replayEndTS |-> NilTS]

\* EnableReplayMode(startTS, endTS)
EnableReplayMode(c, startTS, endTS) ==
    [c EXCEPT !.replayMode = TRUE, !.replayStartTS = startTS,
              !.replayEndTS = endTS]

\* the division without the test for a time before genesis
CurrentSlotUnclamped(c, wall) ==
    LET now == IF c.replayMode /\ c.replayStartTS # NilTS
               THEN c.replayStartTS[1] ELSE wall
    IN (now - c.genesisTime) \div SecondsPerSlot

\* TimeToSlot(timestamp)
TimeToSlot(c, timestamp) ==
    IF timestamp < c.genesisTime THEN 0
    ELSE (timestamp - c.genesisTime) \div SecondsPerSlot

\* CurrentSlot with time.Now().Unix() = wall: the replay start timestamp
\* takes the place of the wall clock when replay mode is on
CurrentSlot(c, wall) ==
    LET now == IF c.replayMode /\ c.replayStartTS # NilTS
               THEN c.replayStartTS[1] ELSE wall
    IN IF now < c.genesisTime THEN 0
       ELSE (now - c.genesisTime) \div SecondsPerSlot

\* ReplayComplete with time.Now().Unix() = wall
ReplayComplete(c, wall) ==
    IF ~c.replayMode \/ c.replayEndTS = NilTS THEN FALSE
    ELSE LET currentTime == IF c.replayStartTS # NilTS
                            THEN c.replayStartTS[1] ELSE wall
         IN currentTime >= c.replayEndTS[1]

SlotToEpoch(s) == s \div SlotsPerEpoch

EpochToSlot(e) == e * SlotsPerEpoch

IsFirstSlotOfEpoch(s) == s % SlotsPerEpoch = 0

IsSlotInEpoch(s, position) == s % SlotsPerEpoch = position

\* a - b on uint64: below zero the value wraps to 2^64 - (b - a), which is
\* kept symbolically
SubUint64(a, b) ==
    IF a >= b THEN [wrapped |-> FALSE, value |-> a - b]
    ELSE [wrapped |-> TRUE, value |-> b - a]

\* Schedule.Update: s.duties[duty.Slot] = duty.ValidatorIndex
ScheduleUpdate(sched, dutyList) ==
    [s \in DOMAIN sched \cup {dutyList[i].Slot : i \in 1..Len(dutyList)} |->
        IF \E i \in 1..Len(dutyList) : dutyList[i].Slot = s
        THEN LET last == CHOOSE i \in 1..Len(dutyList) :
                            /\ dutyList[i].Slot = s
                            /\ \A j \in (i + 1)..Len(dutyList) : dutyList[j].Slot # s
             IN dutyList[last].ValidatorIndex
        ELSE sched[s]]

\* a cleanup that deletes nothing
ScheduleKeepAll(sched, beforeSlot) == sched

\* Schedule.Cleanup: delete every slot < beforeSlot
ScheduleCleanup(sched, beforeSlot) ==
    [s \in {t \in DOMAIN sched : t >= beforeSlot} |-> sched[s]]

\* ValidatorWatcher.cleanup: the cut-off handed to Schedule.Cleanup
CleanupSlot(currentSlot) ==
    IF currentSlot > SlotsPerEpoch * 2 THEN currentSlot - SlotsPerEpoch * 2
    ELSE currentSlot

(***************************************************************************)
(* pkg/duties: ProcessRewards and ProcessLiveness                          *)
(***************************************************************************)
\* a list of records as the Go map built from it, keys[i] being the key of
\* list[i]: the last entry of a key wins
LastWins(list, keys) ==
    [k \in {keys[i] : i \in 1..Len(list)} |->
        LET last == CHOOSE i \in 1..Len(list) :
                       /\ keys[i] = k
                       /\ \A j \in (i + 1)..Len(list) : keys[j] # k
        IN list[last]]

BalanceOf(ideal) == ideal.EffectiveBalance

IndexOf(entry) == entry.ValidatorIndex

ZeroIdeal == [EffectiveBalance |-> 0, Head |-> 0, Target |-> 0, Source |-> 0]

\* the ideal reward used for a validator: its own effective balance, else
\* the 32 ETH entry, else any entry (the responses drawn below hold at most
\* one entry in that case), else the zero value
IdealFor(idealByBalance, effectiveBalance) ==
    IF effectiveBalance \in DOMAIN idealByBalance
    THEN idealByBalance[effectiveBalance]
    ELSE IF FullStakeEth \in DOMAIN idealByBalance
    THEN idealByBalance[FullStakeEth]
    ELSE IF DOMAIN idealByBalance = {} THEN ZeroIdeal
    ELSE idealByBalance[CHOOSE b \in DOMAIN idealByBalance : TRUE]

\* a comparison that also flags an actual reward equal to the ideal one
ProcessRewardsLenient(rewards, validators) ==
    LET idealByBalance == LastWins(rewards.IdealRewards,
                                  [i \in DOMAIN rewards.IdealRewards |->
                                      BalanceOf(rewards.IdealRewards[i])])
        totalRewardsMap == LastWins(rewards.TotalRewards,
                                   [i \in DOMAIN rewards.TotalRewards |->
                                       IndexOf(rewards.TotalRewards[i])])
    IN [idx \in DOMAIN validators \cap DOMAIN totalRewardsMap |->
          LET total == totalRewardsMap[idx]
              ideal == IdealFor(idealByBalance, validators[idx])
          IN [SuboptimalSource |-> total.Source <= ideal.Source,
              SuboptimalTarget |-> total.Target <= ideal.Target,
              SuboptimalHead |-> total.Head <= ideal.Head,
              IdealTotal |-> ideal.Source + ideal.Target + ideal.Head,
              ActualTotal |-> total.Source + total.Target + total.Head]]

\* ProcessRewards: validator index -> RewardData for the validators that the
\* response has a total for
ProcessRewards(rewards, validators) ==
    LET idealByBalance == LastWins(rewards.IdealRewards,
                                  [i \in DOMAIN rewards.IdealRewards |->
                                      BalanceOf(rewards.IdealRewards[i])])
        totalRewardsMap == LastWins(rewards.TotalRewards,
                                   [i \in DOMAIN rewards.TotalRewards |->
                                       IndexOf(rewards.TotalRewards[i])])
    IN [idx \in DOMAIN validators \cap DOMAIN totalRewardsMap |->
          LET total == totalRewardsMap[idx]
              ideal == IdealFor(idealByBalance, validators[idx])
          IN [SuboptimalSource |-> total.Source < ideal.Source,
              SuboptimalTarget |-> total.Target < ideal.Target,
              SuboptimalHead |-> total.Head < ideal.Head,
              IdealTotal |-> ideal.Source + ideal.Target + ideal.Head,
              ActualTotal |-> total.Source + total.Target + total.Head]]

\* a mutator that adds the totals of the epoch to the ones held
ApplyRewardAdding(wv, data) ==
    [wv EXCEPT
       !.SuboptimalSourceVotes = IF data.SuboptimalSource THEN @ + 1 ELSE @,
       !.SuboptimalTargetVotes = IF data.SuboptimalTarget THEN @ + 1 ELSE @,
       !.SuboptimalHeadVotes = IF data.SuboptimalHead THEN @ + 1 ELSE @,
       !.IdealConsensusRewards = @ + data.IdealTotal,
       !.ConsensusRewards = @ + data.ActualTotal]

\* the mutator of processRewards
ApplyReward(wv, data) ==
    [wv EXCEPT
       !.SuboptimalSourceVotes = IF data.SuboptimalSource THEN @ + 1 ELSE @,
       !.SuboptimalTargetVotes = IF data.SuboptimalTarget THEN @ + 1 ELSE @,
       !.SuboptimalHeadVotes = IF data.SuboptimalHead THEN @ + 1 ELSE @,
       !.IdealConsensusRewards = data.IdealTotal,
       !.ConsensusRewards = data.ActualTotal]

LivenessIndex(l) == l.Index

\* ProcessLiveness: result[l.Index] = l.IsLive
ProcessLiveness(liveness) ==
    LET m == LastWins(liveness,
                      [i \in DOMAIN liveness |-> LivenessIndex(liveness[i])])
    IN [idx \in DOMAIN m |-> m[idx].IsLive]

(***************************************************************************)
(* The beacon node: the responses the adapter can hand to the orchestrator *)
(***************************************************************************)
ValidatorIndices == {0, 1, 2}

PubkeyOf(i) == IF i = 0 THEN "pk0" ELSE IF i = 1 THEN "pk1" ELSE "pk2"

\* the withdrawal credentials of the validators of the chain: one of each
\* prefix, and one too short to carry a prefix
CredentialsOf(i) ==
    IF i = 0 THEN <<"0", "x", "0", "1", "a", "b">>
    ELSE IF i = 1 THEN <<"0", "x", "0", "2", "c", "d">>
    ELSE IF i = 2 THEN <<"0", "x", "0", "0", "e", "f">>
    ELSE <<"0", "x", "1">>

NetworkValidator(i, status, balance) ==
    [Index |-> i, Pubkey |-> PubkeyOf(i), Status |-> status,
     EffectiveBalance |-> balance, Slashed |-> FALSE,
     WithdrawalCredentials |-> CredentialsOf(i)]

\* the head state when the process starts, and a later one in which
\* validator 1 has exited
InitialSnapshot ==
    << NetworkValidator(0, "active_ongoing", 32),
       NetworkValidator(1, "active_ongoing", 16),
       NetworkValidator(2, "active_ongoing", 32) >>

LaterSnapshot ==
    << NetworkValidator(0, "active_ongoing", 32),
       NetworkValidator(1, "exited_unslashed", 32),
       NetworkValidator(2, "active_ongoing", 32) >>

BeaconSnapshots == {InitialSnapshot, LaterSnapshot}

Failed == [ok |-> FALSE, data |-> <<>>]

Ok(data) == [ok |-> TRUE, data |-> data]

\* GetValidators(ctx, "head", indices): the entries of the head state with
\* one of the asked indices
SelectByIndex(snapshot, indices) ==
    SelectSeq(snapshot, LAMBDA v : v.Index \in indices)

ValidatorResponses == {Failed} \cup {Ok(sn) : sn \in BeaconSnapshots}

\* the proposer the chain schedules for a slot
ScheduledProposer(s) == s % 3

\* GetProposerDuties(epoch): an error, or one duty per slot of the epoch
DutyResponses(epoch) ==
    {Failed,
     Ok([i \in 1..SlotsPerEpoch |->
           [Slot |-> EpochToSlot(epoch) + i - 1,
            ValidatorIndex |-> ScheduledProposer(EpochToSlot(epoch) + i - 1)]])}

\* GetBlock(slot): an error, or a block with its proposer_index
BlockResponses ==
    {[ok |-> FALSE, proposer |-> 0]} \cup
    {[ok |-> TRUE, proposer |-> p] : p \in ValidatorIndices}

RECURSIVE SortedSeq(_)
SortedSeq(S) ==
    IF S = {} THEN <<>>
    ELSE LET m == CHOOSE x \in S : \A y \in S : x <= y
         IN <<m>> \o SortedSeq(S \ {m})

\* GetValidatorsLiveness(epoch, indices)
LivenessResponses(indices) ==
    {Failed} \cup
    {Ok([i \in 1..Cardinality(indices) |->
           [Index |-> SortedSeq(indices)[i],
            IsLive |-> live[SortedSeq(indices)[i]]]]) :
       live \in [indices -> BOOLEAN]}

Reward(key, head, target, source) ==
    [EffectiveBalance |-> key, ValidatorIndex |-> key,
     Head |-> head, Target |-> target, Source |-> source]

\* GetRewards(epoch, indices)
RewardsResponses ==
    {Failed,
     Ok([IdealRewards |-> <<Reward(32, 2, 3, 1)>>,
         TotalRewards |-> <<Reward(0, 2, 3, 1), Reward(1, 0, 3, -1)>>]),
     Ok([IdealRewards |-> <<Reward(16, 1, 1, 1)>>,
         TotalRewards |-> <<Reward(0, 1, 0, 1)>>]),
     Ok([IdealRewards |-> <<>>, TotalRewards |-> <<Reward(1, 0, 0, 0)>>])}

\* committee rosters of one slot (GetCommittees); validators are the decimal
\* strings of the API
Committee(index, validators) == [Index |-> index, Validators |-> validators]

CommitteeResponses ==
    {Failed,
     Ok(<<Committee(0, << <<"0">>, <<"1">>, <<"2">> >>)>>),
     Ok(<<Committee(0, << <<"0">> >>), Committee(1, << <<"2">> >>)>>)}

Attestation(aggregationBits, committeeBits, index, dataSlot) ==
    [AggregationBits |-> aggregationBits, CommitteeBits |-> committeeBits,
     Data |-> [Slot |-> dataSlot, Index |-> index]]

\* the attestations of the block of slot s (GetAttestations): for slot s-1,
\* older ones (when s >= 2), and ones whose bits do not decode
AttestationResponses(s) ==
    LET prev == s - 1
        old == s - 2
        first == Attestation(<<"0", "x", "0", "1">>, <<>>, 0, prev)
        electra == Attestation(<<"0", "x", "0", "3">>, <<"0", "x", "0", "3">>, 0, prev)
        stale == Attestation(<<"0", "x", "0", "7">>, <<>>, 0, old)
        broken == Attestation(<<"0", "x", "z", "z">>, <<>>, 0, prev)
    IN {Failed, Ok(<<>>), Ok(<<first>>), Ok(<<electra>>), Ok(<<first, broken>>)}
       \cup (IF s >= 2 THEN {Ok(<<first, stale>>)} ELSE {})

(***************************************************************************)
(* pkg/watcher: the main loop                                              *)
(***************************************************************************)
MaxIter == 2

MaxAdvance == 2

MaxWorkers == 2

StartSlots == {0, 15, 31, 80}

NoObs ==
    [step |-> "none", requests |-> {}, ok |-> FALSE, proposer |-> 0,
     attestations |-> <<>>, committees |-> <<>>]

NoEpoch == [wrapped |-> FALSE, value |-> 0]

Request(kind, s) == [kind |-> kind, slot |-> s, epoch |-> NoEpoch]

EpochRequest(kind, e) == [kind |-> kind, slot |-> 0, epoch |-> e]

\* the phase map of one iteration, in the order of the code
AfterReload(s) == "block"

AfterRewards(s) == IF IsSlotInEpoch(s, 15) THEN "reload" ELSE AfterReload(s)

AfterLiveness(s) ==
    IF IsSlotInEpoch(s, 17) /\ SlotToEpoch(s) >= 2 THEN "rewards"
    ELSE AfterRewards(s)

AfterEpoch(s) == IF IsSlotInEpoch(s, 16) THEN "liveness" ELSE AfterLiveness(s)

AfterTop(s) == IF IsFirstSlotOfEpoch(s) THEN "epoch" ELSE AfterEpoch(s)

\* AllValidators.GetByPubkey for every configured key
WatchedIndices(snapshot, config) ==
    {snapshot[i].Index : i \in {j \in 1..Len(snapshot) :
        \E k \in 1..Len(config) : config[k].PublicKey = snapshot[j].Pubkey}}

\* WatchedValidators.GetAll
GetAll(reg) == [i \in 1..Cardinality(DOMAIN reg) |-> reg[SortedSeq(DOMAIN reg)[i]]]

\* the state after initialize: the snapshot loaded (or not), the watched
\* subset built from it or fetched by pubkey, an empty proposer schedule,
\* the clock at one of the start slots
Init ==
    /\ pc = "top"
    /\ slot \in StartSlots
    /\ iter = 0
    /\ \E a \in {Failed, Ok(InitialSnapshot)} :
         /\ allValidators = a.data
         /\ watched = WatchedUpdate(InitialSnapshot, WatchedKeys)
    /\ duties = <<>>
    /\ counterState = <<>>
    /\ exported = <<>>
    /\ bg = 0
    /\ obs = NoObs
    /\ args = <<>>
    /\ ret = <<>>
    /\ clock = <<NewBeaconClock>>
    /\ ctx = FALSE
    /\ ready = TRUE

\* the head of the loop: currentSlot := w.clock.CurrentSlot()
LoopTop ==
    /\ pc = "top"
    /\ iter' = iter + 1
    /\ pc' = AfterTop(slot)
    /\ obs' = NoObs
    /\ UNCHANGED <<clock, ctx, ready,
                   slot, watched, duties, counterState, exported,
                   allValidators, bg, args, ret>>

\* case <-ctx.Done() at the head of the loop or inside WaitUntilNextSlot
Shutdown ==
    /\ pc \in {"top", "wait"}
    /\ pc' = "done"
    /\ ctx' = TRUE
    /\ UNCHANGED <<clock, ready,
                   slot, iter, watched, duties, counterState, exported,
                   allValidators, bg, obs, args, ret>>

\* processEpoch: start the background snapshot load, rebuild the watched
\* subset, refresh the proposer duties of this epoch and the next
ProcessEpoch ==
    /\ pc = "epoch"
    /\ \E vresp \in ValidatorResponses,
          d1 \in DutyResponses(SlotToEpoch(slot)),
          d2 \in DutyResponses(SlotToEpoch(slot) + 1) :
         LET watchedIndices == WatchedIndices(allValidators, WatchedKeys) IN
         IF watchedIndices # {} /\ ~vresp.ok
         THEN /\ UNCHANGED <<watched, duties>>
              /\ obs' = [NoObs EXCEPT !.step = "epoch"]
         ELSE /\ watched' =
                   IF watchedIndices = {} THEN watched
                   ELSE WatchedUpdate(SelectByIndex(vresp.data, watchedIndices),
                                      WatchedKeys)
              /\ duties' = ScheduleUpdate(ScheduleUpdate(duties, d1.data), d2.data)
              /\ obs' = [NoObs EXCEPT !.step = "epoch", !.ok = TRUE]
    /\ bg' = bg + 1
    /\ pc' = AfterEpoch(slot)
    /\ UNCHANGED <<clock, ctx, ready,
                   slot, iter, counterState, exported, allValidators, args, ret>>

\* the goroutine started by processEpoch: GetAllValidators, then
\* allValidators.Update, nothing on an error
BackgroundLoad ==
    /\ bg > 0
    /\ bg' = bg - 1
    /\ \E resp \in ValidatorResponses :
         allValidators' = IF resp.ok THEN resp.data ELSE allValidators
    /\ UNCHANGED <<clock, ctx, ready,
                   pc, slot, iter, watched, duties, counterState, exported,
                   obs, args, ret>>

\* processLiveness(currentEpoch - 1)
ProcessLivenessStep ==
    /\ pc = "liveness"
    /\ \E resp \in LivenessResponses(DOMAIN watched) :
         IF DOMAIN watched = {} \/ ~resp.ok
         THEN /\ UNCHANGED watched
              /\ obs' = [NoObs EXCEPT !.step = "liveness",
                           !.requests = IF DOMAIN watched = {} THEN {}
                                        ELSE {EpochRequest("liveness",
                                                SubUint64(SlotToEpoch(slot), 1))}]
         ELSE LET livenessMap == ProcessLiveness(resp.data) IN
              /\ watched' = [i \in DOMAIN watched |->
                               IF i \in DOMAIN livenessMap /\ ~livenessMap[i]
                               THEN MarkNotLive(watched[i]) ELSE watched[i]]
              /\ obs' = [NoObs EXCEPT !.step = "liveness", !.ok = TRUE,
                           !.requests = {EpochRequest("liveness",
                                           SubUint64(SlotToEpoch(slot), 1))}]
    /\ pc' = AfterLiveness(slot)
    /\ UNCHANGED <<clock, ctx, ready,
                   slot, iter, duties, counterState, exported, allValidators,
                   bg, args, ret>>

\* processRewards(currentEpoch - 2)
ProcessRewardsStep ==
    /\ pc = "rewards"
    /\ \E resp \in RewardsResponses :
         IF DOMAIN watched = {} \/ ~resp.ok
         THEN /\ UNCHANGED watched
              /\ obs' = [NoObs EXCEPT !.step = "rewards",
                           !.requests = IF DOMAIN watched = {} THEN {}
                                        ELSE {EpochRequest("rewards",
                                                SubUint64(SlotToEpoch(slot), 2))}]
         ELSE LET validatorBalances ==
                      [i \in DOMAIN watched |-> watched[i].EffectiveBalance]
                  rewardData == ProcessRewards(resp.data, validatorBalances)
              IN /\ watched' = [i \in DOMAIN watched |->
                                  IF i \in DOMAIN rewardData
                                  THEN ApplyReward(watched[i], rewardData[i])
                                  ELSE watched[i]]
                 /\ obs' = [NoObs EXCEPT !.step = "rewards", !.ok = TRUE,
                              !.requests = {EpochRequest("rewards",
                                              SubUint64(SlotToEpoch(slot), 2))}]
    /\ pc' = AfterRewards(slot)
    /\ UNCHANGED <<clock, ctx, ready,
                   slot, iter, duties, counterState, exported, allValidators,
                   bg, args, ret>>

\* reloadConfig: a stub
ReloadConfig ==
    /\ pc = "reload"
    /\ pc' = AfterReload(slot)
    /\ obs' = [NoObs EXCEPT !.step = "reload"]
    /\ UNCHANGED <<clock, ctx, ready,
                   slot, iter, watched, duties, counterState, exported,
                   allValidators, bg, args, ret>>

\* a step that returns an error and ends the loop
LogAndReturn(failed, next) == IF failed THEN "done" ELSE next

\* if err := step(); err != nil { log }: the loop goes on to the next phase
\* whatever the step returned
LogAndContinue(failed, next) == next

\* processBlock: a failed GetBlock debits the scheduled proposer, a block
\* credits the proposer_index it carries; only watched validators count
ProcessBlock ==
    /\ pc = "block"
    /\ \E resp \in BlockResponses :
         /\ watched' =
              IF ~resp.ok
              THEN IF slot \in DOMAIN duties
                   THEN UpdateMetrics(watched, duties[slot],
                          [i \in DOMAIN watched |-> MarkMissedBlock(watched[i])])
                   ELSE watched
              ELSE UpdateMetrics(watched, resp.proposer,
                     [i \in DOMAIN watched |-> MarkProposed(watched[i])])
         /\ obs' = [NoObs EXCEPT !.step = "block", !.ok = resp.ok,
                      !.proposer = resp.proposer,
                      !.requests = {Request("block", slot)}]
         /\ pc' = LogAndContinue(~resp.ok, "attest")
    /\ UNCHANGED <<clock, ctx, ready,
                   slot, iter, duties, counterState, exported, allValidators,
                   bg, args, ret>>

\* every attestation of the block, whatever its slot
FilterAttestations(attestations, previousSlot) ==
    SelectSeq(attestations, LAMBDA att : TRUE)

\* the attestations kept by processAttestations: att.Data.Slot == previousSlot
FilterPrevious(attestations, previousSlot) ==
    SelectSeq(attestations, LAMBDA att : att.Data.Slot = previousSlot)

\* validatorsWithDuties: every index parsed from a roster
ValidatorsWithDuties(committees) ==
    UNION {{SscanfIndex(committees[c].Validators[k]) :
              k \in 1..Len(committees[c].Validators)} : c \in 1..Len(committees)}

\* the loop over validatorsWithDuties
ApplyDuties(reg, withDuties, attested) ==
    [i \in DOMAIN reg |->
        IF i \notin withDuties THEN reg[i]
        ELSE IF i \in attested THEN MarkAttested(reg[i])
        ELSE MarkMissedAttestation(reg[i])]

\* processAttestations: nothing for slot 0; otherwise the attestations of
\* the block of this slot, the rosters of the previous slot, the attribution
\* and the duty counters; any error ends the pass before a counter changes
ProcessAttestationsStep ==
    /\ pc = "attest"
    /\ IF slot = 0
       THEN /\ UNCHANGED watched
            /\ obs' = [NoObs EXCEPT !.step = "attest"]
            /\ pc' = LogAndContinue(FALSE, "metrics")
       ELSE \E aresp \in AttestationResponses(slot), cresp \in CommitteeResponses :
              LET previousSlot == slot - 1
                  filtered == FilterPrevious(aresp.data, previousSlot)
                  attested == ProcessAttestations(filtered, cresp.data)
              IN
              IF ~aresp.ok
              THEN /\ UNCHANGED watched
                   /\ obs' = [NoObs EXCEPT !.step = "attest",
                                !.requests = {Request("attestations", slot)}]
                   /\ pc' = LogAndContinue(TRUE, "metrics")
              ELSE /\ watched' =
                        IF cresp.ok /\ attested.ok
                        THEN ApplyDuties(watched, ValidatorsWithDuties(cresp.data),
                                         attested.attested)
                        ELSE watched
                   /\ obs' = [NoObs EXCEPT !.step = "attest", !.ok = cresp.ok,
                                !.attestations = aresp.data,
                                !.committees = cresp.data,
                                !.requests = {Request("attestations", slot),
                                              Request("committees", previousSlot)}]
                   /\ pc' = LogAndContinue(~cresp.ok \/ ~attested.ok, "metrics")
    /\ UNCHANGED <<clock, ctx, ready,
                   slot, iter, duties, counterState, exported, allValidators,
                   bg, args, ret>>

\* an updateMetrics that aggregates the network snapshot only
MetricsOfNetworkOnly(reg, allVals, numWorkers) ==
    "scope:all-network" :> ComputeNetworkMetrics(allVals)

\* what updateMetrics hands to the exposition: the aggregation of the
\* watched registry, its scope:all-network entry replaced by the network one
MetricsByLabel(reg, allVals, numWorkers) ==
    ("scope:all-network" :> ComputeNetworkMetrics(allVals))
        @@ ComputeMetrics(GetAll(reg), numWorkers)

\* updateMetrics: ComputeMetrics, ComputeNetworkMetrics, then the
\* exposition's UpdateMetrics
UpdateMetricsStep ==
    /\ pc = "metrics"
    /\ \E numWorkers \in 1..MaxWorkers :
         \E metricsByLabel \in {MetricsByLabel(watched, allValidators, numWorkers)} :
            /\ counterState' = NextCounterState(counterState, metricsByLabel)
            /\ exported' = NextExported(counterState, exported, metricsByLabel)
    /\ pc' = "wait"
    /\ obs' = [NoObs EXCEPT !.step = "metrics"]
    /\ UNCHANGED <<clock, ctx, ready,
                   slot, iter, watched, duties, allValidators, bg, args, ret>>

\* WaitUntilNextSlot returns, the old duties are dropped, and the clock
\* shows a later slot when the loop reads it again
WaitNextSlot ==
    /\ pc = "wait"
    /\ iter < MaxIter
    /\ \E advance \in 1..MaxAdvance : slot' = slot + advance
    /\ duties' = ScheduleCleanup(duties, CleanupSlot(slot))
    /\ pc' = "top"
    /\ obs' = [NoObs EXCEPT !.step = "wait"]
    /\ UNCHANGED <<clock, ctx, ready,
                   iter, watched, counterState, exported, allValidators, bg,
                   args, ret>>

\* WatchedValidators.ResetMetrics, callable between any two steps
ResetMetricsCall ==
    /\ pc \notin {"done", "call"}
    /\ watched' = ResetMetrics(watched)
    /\ UNCHANGED <<clock, ctx, ready,
                   pc, slot, iter, duties, counterState, exported,
                   allValidators, bg, obs, args, ret>>

Next ==
    \/ LoopTop
    \/ Shutdown
    \/ ProcessEpoch
    \/ BackgroundLoad
    \/ ProcessLivenessStep
    \/ ProcessRewardsStep
    \/ ReloadConfig
    \/ ProcessBlock
    \/ ProcessAttestationsStep
    \/ UpdateMetricsStep
    \/ WaitNextSlot
    \/ ResetMetricsCall

Spec == Init /\ [][Next]_vars

(***************************************************************************)
(* Properties of the per-slot pass                                         *)
(***************************************************************************)
\* the step of the loop that ran processAttestations for a slot >= 1
AttestationPass == pc = "attest" /\ pc' = "metrics" /\ slot >= 1

\* the step of the loop that ran processBlock
BlockPass == pc = "block" /\ pc' = "attest"

\* the validator indices listed in the rosters of a committees response
RosterMembers(committees) ==
    {SscanfIndex(str) : str \in UNION {Range(committees[c].Validators) :
                                          c \in 1..Len(committees)}}

\* the validators marked by the attestations of a response whose data.slot
\* is the given slot, each decoded on its own against the rosters
AttestersForSlot(attestations, committees, s) ==
    UNION {AttestersOf(attestations[i], CommitteeMap(committees)).set :
             i \in {j \in 1..Len(attestations) : attestations[j].Data.Slot = s}}

\* C3: on processing a slot s >= 1 for which the rosters of s-1 were
\* obtained, every watched validator listed in a roster has its
\* attestation_duties incremented by exactly one, and exactly one of its
\* attestation_duties_success and consecutive_missed_attestations is
\* incremented by one.
C3_DutyCountedOnce ==
    [][(AttestationPass /\ obs'.ok) =>
         \A v \in DOMAIN watched \cap RosterMembers(obs'.committees) :
            /\ v \in DOMAIN watched'
            /\ watched'[v].AttestationDuties = watched[v].AttestationDuties + 1
            /\ (watched'[v].AttestationDutiesSuccess
                    = watched[v].AttestationDutiesSuccess + 1)
               # (watched'[v].ConsecutiveMissedAttest
                    = watched[v].ConsecutiveMissedAttest + 1)]_vars

\* an attestation of the given slot has a bit field that does not decode
HasUndecodable(attestations, committees, s) ==
    \E j \in 1..Len(attestations) :
       /\ attestations[j].Data.Slot = s
       /\ ~AttestersOf(attestations[j], CommitteeMap(committees)).ok

\* C27 (as stated): when an attestation of the slot has aggregation_bits
\* or committee_bits that cannot be decoded, it is skipped alone: every
\* watched validator listed in a roster still has its attestation_duties
\* incremented, and those marked by the remaining attestations are still
\* counted as having attested.
C27_UndecodableSkippedAlone ==
    [][(/\ AttestationPass
        /\ obs'.ok
        /\ HasUndecodable(obs'.attestations, obs'.committees, slot - 1)) =>
         \A v \in DOMAIN watched \cap RosterMembers(obs'.committees) :
            /\ v \in DOMAIN watched'
            /\ watched'[v].AttestationDuties = watched[v].AttestationDuties + 1
            /\ v \in AttestersForSlot(obs'.attestations, obs'.committees, slot - 1)
                  => watched'[v].AttestationDutiesSuccess
                        = watched[v].AttestationDutiesSuccess + 1]_vars

\* what the code does with such a response: no counter of any watched
\* validator changes in the pass
C27_UndecodableAbortsPass ==
    [][(/\ AttestationPass
        /\ obs'.ok
        /\ HasUndecodable(obs'.attestations, obs'.committees, slot - 1)) =>
         watched' = watched]_vars

\* C4 as stated: when the scheduled proposer of the processed slot is
\* watched, its proposed_blocks grows by one and its missed_blocks stays
\* when get_block succeeds, and the other way round when get_block fails.
C4_ScheduledProposerExactlyOne ==
    [][(BlockPass /\ slot \in DOMAIN duties /\ duties[slot] \in DOMAIN watched) =>
         LET v == duties[slot] IN
         IF obs'.ok
         THEN /\ watched'[v].ProposedBlocks = watched[v].ProposedBlocks + 1
              /\ watched'[v].MissedBlocks = watched[v].MissedBlocks
         ELSE /\ watched'[v].MissedBlocks = watched[v].MissedBlocks + 1
              /\ watched'[v].ProposedBlocks = watched[v].ProposedBlocks]_vars

\* C4 as the code has it: a failed get_block adds one to missed_blocks of
\* the scheduled proposer when it is watched and changes no other block
\* counter; a block adds one to proposed_blocks of the proposer_index the
\* block carries when it is watched and changes no other block counter.  So
\* exactly one of the two counters of a watched scheduled proposer grows
\* whenever the block, if any, carries the scheduled proposer.
C4_BlockOutcomeAttribution ==
    [][BlockPass =>
         /\ DOMAIN watched' = DOMAIN watched
         /\ \A v \in DOMAIN watched :
              LET scheduled == slot \in DOMAIN duties /\ duties[slot] = v
                  missed == IF ~obs'.ok /\ scheduled THEN 1 ELSE 0
                  proposed == IF obs'.ok /\ obs'.proposer = v THEN 1 ELSE 0
              IN /\ watched'[v].MissedBlocks = watched[v].MissedBlocks + missed
                 /\ watched'[v].ProposedBlocks = watched[v].ProposedBlocks + proposed
                 /\ (scheduled /\ (obs'.ok => obs'.proposer = v))
                       => missed + proposed = 1]_vars

\* a block of the scheduled watched proposer was credited, and a missing
\* block was debited
C4_Witness ==
    /\ pc = "attest"
    /\ obs.step = "block"
    /\ slot \in DOMAIN duties
    /\ duties[slot] \in DOMAIN watched
    /\ \/ obs.ok /\ obs.proposer = duties[slot]
             /\ watched[duties[slot]].ProposedBlocks = 2
       \/ ~obs.ok /\ watched[duties[slot]].MissedBlocks = 1
                  /\ watched[duties[slot]].ProposedBlocks = 1

\* C5: in every reachable state every watched validator has
\* attestation_duties_success <= attestation_duties.
C5_SuccessWithinDuties ==
    \A v \in DOMAIN watched :
       watched[v].AttestationDutiesSuccess <= watched[v].AttestationDuties

\* a validator that attested once and missed once, next to one whose
\* counters were zeroed
C5_Witness ==
    \E v, u \in DOMAIN watched :
       /\ watched[v].AttestationDutiesSuccess = 1
       /\ watched[v].AttestationDuties = 2
       /\ watched[u].AttestationDuties = 0

C8_PreviousSlotOnly ==
    [][(pc = "attest" /\ pc' = "metrics") =>
         IF slot = 0
         THEN obs'.requests = {} /\ watched' = watched
         ELSE /\ obs'.requests \subseteq {Request("attestations", slot),
                                          Request("committees", slot - 1)}
              /\ \A v \in DOMAIN watched :
                   watched'[v].AttestationDutiesSuccess
                        # watched[v].AttestationDutiesSuccess
                     => v \in AttestersForSlot(obs'.attestations,
                                               obs'.committees, slot - 1)]_vars

\* a pass whose response carried an older attestation marking validator 1:
\* validator 0 is credited, validator 1 is counted as missing
C8_Witness ==
    /\ obs.step = "attest"
    /\ obs.ok
    /\ \E i \in 1..Len(obs.attestations) : obs.attestations[i].Data.Slot = slot - 2
    /\ 1 \in AttestersForSlot(obs.attestations, obs.committees, slot - 2)
    /\ 0 \in DOMAIN watched /\ 1 \in DOMAIN watched
    /\ watched[0].AttestationDutiesSuccess >= 1
    /\ watched[1].AttestationDutiesSuccess = 0
    /\ watched[1].ConsecutiveMissedAttest >= 1

(***************************************************************************)
(* ProcessAttestations on its own: bounded inputs, one call                *)
(***************************************************************************)
MaxAttestations == 2

\* the rosters of TestProcessAttestations and three variations: a gap in
\* the committee indices, a single committee, three committees
ExampleCommittees ==
    << Committee(0, << <<"1", "0">>, <<"2", "0">>, <<"3", "0">>, <<"4", "0">> >>),
       Committee(1, << <<"5", "0">>, <<"6", "0">>, <<"7", "0">>, <<"8", "0">> >>) >>

AttributionRosters ==
    {ExampleCommittees,
     << Committee(0, << <<"1", "0">>, <<"2", "0">>, <<"3", "0">> >>),
        Committee(2, << <<"5", "0">>, <<"6", "0">> >>) >>,
     << Committee(1, << <<"7">>, <<"8">> >>) >>,
     << Committee(0, << <<"1", "0">>, <<"2", "0">>, <<"3", "0">>, <<"4", "0">> >>),
        Committee(1, << <<"5", "0">>, <<"6", "0">>, <<"7", "0">>, <<"8", "0">> >>),
        Committee(2, << <<"9", "0">>, <<"1", "1">>, <<"1", "0">> >>) >>}

AggregationPool ==
    {<<"0", "x", "8", "5">>, <<"0", "x", "0", "6">>,
     <<"0", "x", "0", "1", "0", "3">>, <<"0", "x", "z", "z">>}

AttestationPool ==
    {Attestation(agg, cb, idx, 0) :
        agg \in AggregationPool, cb \in {<<>>, <<"0", "x">>}, idx \in {0, 1, 2}}
    \cup
    {Attestation(agg, cb, 0, 0) :
        agg \in AggregationPool,
        cb \in {<<"0", "x", "0", "3">>, <<"0", "x", "0", "2">>,
                <<"0", "x", "0", "5">>, <<"0", "x", "0", "7">>}}

SeqsUpTo(S, n) == UNION {[1..m -> S] : m \in 0..n}

InitAttribution ==
    /\ pc = "call"
    /\ args \in [attestations : SeqsUpTo(AttestationPool, MaxAttestations),
                 committees : AttributionRosters]
    /\ ret = [ok |-> FALSE, attested |-> {}]
    /\ slot = 0 /\ iter = 0 /\ watched = <<>> /\ duties = <<>>
    /\ counterState = <<>> /\ exported = <<>> /\ allValidators = <<>>
    /\ bg = 0 /\ obs = NoObs
    /\ clock = <<NewBeaconClock>> /\ ctx = FALSE /\ ready = FALSE

CallProcessAttestations ==
    /\ pc = "call"
    /\ ret' = ProcessAttestations(args.attestations, args.committees)
    /\ pc' = "return"
    /\ UNCHANGED <<clock, ctx, ready,
                   slot, iter, watched, duties, counterState, exported,
                   allValidators, bg, obs, args>>

NextAttribution == CallProcessAttestations

SpecAttribution == InitAttribution /\ [][NextAttribution]_vars

\* bit p of a hex-encoded bit field, bytes in order, least significant bit
\* of each byte first
BitIsSet(hex, p) ==
    LET body == TrimPrefix0x(hex) IN
    /\ 2 * (p \div 8) + 2 <= Len(body)
    /\ ((16 * HexDigit(body[2 * (p \div 8) + 1]) + HexDigit(body[2 * (p \div 8) + 2]))
           \div (2 ^ (p % 8))) % 2 = 1

\* the indices of the roster committees an attestation speaks for: those
\* selected by committee_bits, or data.index alone when committee_bits is
\* empty
SelectedIndices(att, committees) ==
    LET present == {committees[k].Index : k \in 1..Len(committees)} IN
    IF att.CommitteeBits = <<>> \/ att.CommitteeBits = <<"0", "x">>
    THEN {att.Data.Index} \cap present
    ELSE {i \in present : BitIsSet(att.CommitteeBits, i)}

RosterCommittee(committees, i) ==
    committees[CHOOSE k \in 1..Len(committees) : committees[k].Index = i]

\* the set the claim describes: v at position k of a selected committee c,
\* with bit (sizes of the selected committees before c) + k set
ExpectedAttesters(attestations, committees) ==
    UNION {
      LET att == attestations[a]
          sel == SelectedIndices(att, committees)
      IN {SscanfIndex(RosterCommittee(committees, c).Validators[k + 1]) :
            <<c, k>> \in
              {q \in sel \X (0..8) :
                 /\ q[2] < Len(RosterCommittee(committees, q[1]).Validators)
                 /\ BitIsSet(att.AggregationBits,
                       SumOver({e \in sel : e < q[1]},
                               [e \in sel |->
                                  Len(RosterCommittee(committees, e).Validators)])
                       + q[2])}}
      : a \in 1..Len(attestations)}

\* C7: whenever ProcessAttestations returns a set, it is the set of the
\* validators v at a position k of a selected committee c such that bit
\* (sum of the sizes of the selected committees before c) + k of
\* aggregation_bits is set, the union being taken over the attestations.
C7_AttributionSet ==
    (pc = "return" /\ ret.ok) =>
       ret.attested = ExpectedAttesters(args.attestations, args.committees)

\* the example: committee_bits 0x03 and aggregation_bits 0x85 over the two
\* committees of four give {10, 30, 80}
C7_Witness ==
    /\ pc = "return"
    /\ args.committees = ExampleCommittees
    /\ args.attestations =
         <<Attestation(<<"0", "x", "8", "5">>, <<"0", "x", "0", "3">>, 0, 0)>>
    /\ ret.ok
    /\ ret.attested = {10, 30, 80}

(***************************************************************************)
(* PrometheusMetrics.UpdateMetrics on its own: any sequence of totals      *)
(***************************************************************************)
MaxCycles == 3

\* the aggregate of one label as a publish cycle receives it
Totals(label, proposed, missed, proposedFinalized, missedFinalized) ==
    [EmptyMetrics(label) EXCEPT !.ProposedBlocks = proposed,
                                !.MissedBlocks = missed,
                                !.ProposedBlocksFinalized = proposedFinalized,
                                !.MissedBlocksFinalized = missedFinalized]

\* the maps a cycle may be handed: scope:watched always, operator:a when a
\* validator bears it; totals rise and fall freely between cycles
PublishedTotals ==
    {("scope:watched" :> w) @@ o :
        w \in {Totals("scope:watched", p, m, f, f) :
                  p \in {0, 2, 7, 10}, m \in {0, 1}, f \in {0, 1}},
        o \in {<<>>} \cup
              {("operator:a" :> Totals("operator:a", p, 0, 0, 0)) : p \in {0, 1}}}

InitPublish ==
    /\ pc = "publish"
    /\ iter = 0
    /\ counterState = <<>>
    /\ exported = <<>>
    /\ args = <<>>
    /\ ret = <<>>
    /\ slot = 0 /\ watched = <<>> /\ duties = <<>> /\ allValidators = <<>>
    /\ bg = 0 /\ obs = NoObs
    /\ clock = <<NewBeaconClock>> /\ ctx = FALSE /\ ready = FALSE

\* one call of UpdateMetrics(metricsByLabel, slot, epoch, network)
PublishCycle ==
    /\ pc = "publish"
    /\ iter < MaxCycles
    /\ \E metricsByLabel \in PublishedTotals :
          /\ counterState' = NextCounterState(counterState, metricsByLabel)
          /\ exported' = NextExported(counterState, exported, metricsByLabel)
          /\ args' = metricsByLabel
    /\ iter' = iter + 1
    /\ UNCHANGED <<clock, ctx, ready,
                   pc, slot, watched, duties, allValidators, bg, obs, ret>>

NextPublish == PublishCycle

SpecPublish == InitPublish /\ [][NextPublish]_vars

WatchedScope == ScopeKey(Network, "scope:watched")

\* C1: from one publish cycle to the next, every exported block counter of
\* every (network, scope) stays or grows, whatever totals the cycles are
\* handed, decreases included; the counters of a scope never disappear.
C1_ExportedNeverDecreases ==
    [][\A k \in DOMAIN exported :
          /\ k \in DOMAIN exported'
          /\ \A c \in CounterNames : exported'[k][c] >= exported[k][c]]_vars

\* three cycles of which the last saw the total of proposed blocks fall to
\* 2 while the exported counter stands at 10
C1_Witness ==
    /\ pc = "publish"
    /\ iter = 3
    /\ WatchedScope \in DOMAIN counterState
    /\ counterState[WatchedScope]["ProposedBlocks"] = 2
    /\ exported[WatchedScope]["ProposedBlocks"] = 10

\* C2: a cycle that is handed, for a scope seen before, a total lower than
\* the last seen one adds the whole current total to the exported counter.
C2_DecreaseAddsCurrent ==
    [][\A k \in DOMAIN counterState : \A c \in CounterNames :
          counterState'[k][c] < counterState[k][c]
             => exported'[k][c] = exported[k][c] + counterState'[k][c]]_vars

\* C18: for every (network, scope) a cycle publishes and every block
\* counter, a total at or above the last seen one adds exactly their
\* difference to the exported counter, the first total seen for the scope
\* is added whole, and the last seen total becomes the total of the cycle.
C18_DeltaAndLastSeen ==
    [][\A l \in DOMAIN args' : \A c \in CounterNames :
          LET k == ScopeKey(Network, l)
              current == args'[l][c]
          IN /\ (k \in DOMAIN counterState /\ current >= counterState[k][c])
                   => exported'[k][c] = exported[k][c] + (current - counterState[k][c])
             /\ k \notin DOMAIN counterState
                   => exported'[k][c] =
                         (IF k \in DOMAIN exported THEN exported[k][c] ELSE 0)
                         + current
             /\ counterState'[k][c] = current]_vars

\* two cycles have published scope:watched, the second with the total of
\* proposed blocks at 10 and 3 above a first total of 7
C18_Witness ==
    /\ pc = "publish"
    /\ iter = 2
    /\ WatchedScope \in DOMAIN counterState
    /\ counterState[WatchedScope]["ProposedBlocks"] = 10
    /\ exported[WatchedScope]["ProposedBlocks"] = 10
    /\ args["scope:watched"]["ProposedBlocks"] = 10
    /\ exported[WatchedScope]["MissedBlocks"] = 1
    /\ counterState[WatchedScope]["MissedBlocks"] = 1

(***************************************************************************)
(* ComputeMetrics on its own: bounded registries, one call                 *)
(***************************************************************************)
MaxValidators == 2

\* the label lists of the watched keys of a configuration file; the file
\* is not checked for a label that repeats or that names a scope
ConfiguredLabels ==
    {<<>>, <<"operator:a">>, <<"operator:a", "operator:a">>, <<"scope:watched">>}

\* counters a watched validator may have accumulated
CounterProfiles ==
    {[missed |-> 0, votes |-> 0, duties |-> 0, blocks |-> 0, finalized |-> 0],
     [missed |-> 2, votes |-> 0, duties |-> 0, blocks |-> 0, finalized |-> 0],
     [missed |-> 1, votes |-> 1, duties |-> 3, blocks |-> 2, finalized |-> 0],
     [missed |-> 0, votes |-> 0, duties |-> 1, blocks |-> 1, finalized |-> 1]}

WithCounters(wv, p) ==
    [wv EXCEPT !.MissedAttestations = p.missed,
               !.SuboptimalSourceVotes = p.votes,
               !.SuboptimalTargetVotes = p.votes,
               !.SuboptimalHeadVotes = 2 * p.votes,
               !.IdealConsensusRewards = 3 * p.duties,
               !.ConsensusRewards = 2 * p.duties,
               !.AttestationDuties = p.duties,
               !.AttestationDutiesSuccess = p.duties - p.votes,
               !.ProposedBlocks = p.blocks,
               !.MissedBlocks = p.finalized + p.votes,
               !.ProposedBlocksFinalized = p.finalized,
               !.MissedBlocksFinalized = p.finalized,
               !.FutureBlockProposals = p.finalized]

WatchedPool ==
    {WithCounters(
        NewWatchedValidator(NetworkValidator(0, status, balance),
                            [PublicKey |-> "pk0", Labels |-> labels]), p) :
        status \in {"active_ongoing", "active_exiting", "exited_unslashed"},
        balance \in {32, 16},
        labels \in ConfiguredLabels,
        p \in CounterProfiles}

\* the registry as GetAll returns it: validator k of the list has index k
Registries ==
    {[k \in DOMAIN r |-> [r[k] EXCEPT !.Index = k]] :
        r \in SeqsUpTo(WatchedPool, MaxValidators)}

InitCompute ==
    /\ pc = "compute"
    /\ args \in [validators : Registries, numWorkers : 1..MaxWorkers]
    /\ ret = <<>>
    /\ slot = 0 /\ iter = 0 /\ watched = <<>> /\ duties = <<>>
    /\ counterState = <<>> /\ exported = <<>> /\ allValidators = <<>>
    /\ bg = 0 /\ obs = NoObs
    /\ clock = <<NewBeaconClock>> /\ ctx = FALSE /\ ready = FALSE

CallComputeMetrics ==
    /\ pc = "compute"
    /\ ret' = ComputeMetrics(args.validators, args.numWorkers)
    /\ pc' = "computed"
    /\ UNCHANGED <<clock, ctx, ready,
                   slot, iter, watched, duties, counterState, exported,
                   allValidators, bg, obs, args>>

NextCompute == CallComputeMetrics

SpecCompute == InitCompute /\ [][NextCompute]_vars

\* the validators of a list that bear a label, and the active ones of them
Bearing(validators, label) ==
    {k \in 1..Len(validators) : label \in Range(validators[k].Labels)}

ActiveBearing(validators, label) ==
    {k \in Bearing(validators, label) :
        validators[k].Status \in {"active_ongoing", "active_exiting", "active_slashed"}}

LabelsBorne(validators) ==
    UNION {Range(validators[k].Labels) : k \in 1..Len(validators)}

FieldSum(validators, members, field) ==
    SumOver(members, [k \in members |-> validators[k][field]])

WeightedSum(validators, members, field) ==
    SumOver(members, [k \in members |-> validators[k][field] * validators[k].Weight])

PerformanceFields ==
    {"MissedAttestations", "SuboptimalSourceVotes", "SuboptimalTargetVotes",
     "SuboptimalHeadVotes", "AttestationDuties", "AttestationDutiesSuccess",
     "IdealConsensusRewards", "ConsensusRewards"}

\* a stake-weighted aggregate and the counter it weighs
StakeFields ==
    {<<"MissedAttestationsStake", "MissedAttestations">>,
     <<"SuboptimalSourceVotesStake", "SuboptimalSourceVotes">>,
     <<"SuboptimalTargetVotesStake", "SuboptimalTargetVotes">>,
     <<"SuboptimalHeadVotesStake", "SuboptimalHeadVotes">>,
     <<"AttestationDutiesStake", "AttestationDuties">>}

BlockFields ==
    {"ProposedBlocks", "MissedBlocks", "ProposedBlocksFinalized",
     "MissedBlocksFinalized", "FutureBlockProposals"}

\* C9: for every label, each aggregated performance counter is the sum of
\* the counter, and each stake-weighted variant the sum of counter times
\* weight, over the validators bearing the label whose status is
\* active_ongoing, active_exiting or active_slashed.
C9_PerformanceOverActive ==
    pc = "computed" =>
      \A label \in LabelsBorne(args.validators) :
         /\ label \in DOMAIN ret
         /\ \A f \in PerformanceFields :
               ret[label][f] =
                  FieldSum(args.validators, ActiveBearing(args.validators, label), f)
         /\ \A sf \in StakeFields :
               ret[label][sf[1]] =
                  WeightedSum(args.validators, ActiveBearing(args.validators, label), sf[2])

\* C10: for every label, each aggregated block counter is the sum of the
\* counter over all the validators bearing the label, whatever their status.
C10_BlocksOverAll ==
    pc = "computed" =>
      \A label \in LabelsBorne(args.validators) :
         /\ label \in DOMAIN ret
         /\ \A f \in BlockFields :
               ret[label][f] =
                  FieldSum(args.validators, Bearing(args.validators, label), f)

\* a rate that is the quotient num/den of two totals, or zero when the
\* divisor is not positive, and in no case the result of a division by zero
IsQuotient(rate, num, den) ==
    /\ rate.den # 0
    /\ IF den > 0
       THEN rate.num * den = num * rate.den
       ELSE rate.num = 0

\* C20: in every per-label record ConsensusRewardsRate is ConsensusRewards
\* over IdealConsensusRewards when the latter is positive and 0 otherwise,
\* AttestationDutiesRate is AttestationDutiesSuccess over AttestationDuties
\* when the latter is positive and 0 otherwise, and no rate comes from a
\* division by zero.
C20_RatesGuarded ==
    pc = "computed" =>
      \A label \in DOMAIN ret :
         /\ IsQuotient(ret[label].ConsensusRewardsRate,
                       ret[label].ConsensusRewards,
                       ret[label].IdealConsensusRewards)
         /\ IsQuotient(ret[label].AttestationDutiesRate,
                       ret[label].AttestationDutiesSuccess,
                       ret[label].AttestationDuties)

\* a call that returned a record with rewards and duties, at the rates 2/3
\* and 2/3, and a record without any
C20_Witness ==
    /\ pc = "computed"
    /\ \E l1, l2 \in DOMAIN ret :
          /\ ret[l1].IdealConsensusRewards = 9
          /\ ret[l1].ConsensusRewardsRate = FloatDiv(6, 9)
          /\ ret[l1].AttestationDutiesRate = FloatDiv(2, 3)
          /\ ret[l2].IdealConsensusRewards = 0
          /\ ret[l2].AttestationDuties = 0
          /\ ret[l2].ConsensusRewardsRate = ZeroRate
          /\ ret[l2].AttestationDutiesRate = ZeroRate

(***************************************************************************)
(* The control flow of mainLoop: modes, cancellation, waits and back-offs  *)
(***************************************************************************)
MaxRetries == 3

MaxRequests == 2

ReplayStarts == {0, 24, 60}

ReplayEnds == {24, 60, 96}

\* the wall-clock readings a live run may take
WallTimes == {0, 24, 36, 48, 60}

\* w.clock after initialize: nil without genesis or spec, a live clock, or
\* a replay clock when replay_start_at_ts is configured
ControlClocks ==
    {<<>>, <<NewBeaconClock>>}
    \cup {<<EnableReplayMode(NewBeaconClock, <<st>>, e)>> :
             st \in ReplayStarts, e \in {NilTS} \cup {<<t>> : t \in ReplayEnds}}

\* mainLoop is entered: ready is set, nothing is cancelled yet; iter counts
\* the beacon requests the running iteration may still send and bg the
\* attempts the request in flight has made
InitControl ==
    /\ clock \in ControlClocks
    /\ pc = IF clock = <<>> THEN "snapshot" ELSE "top"
    /\ slot = 0
    /\ iter = 0
    /\ bg = 0
    /\ ctx = FALSE
    /\ ready = TRUE
    /\ ret = "none"
    /\ watched = <<>> /\ duties = <<>> /\ counterState = <<>>
    /\ exported = <<>> /\ allValidators = <<>> /\ obs = NoObs /\ args = <<>>

\* the context of Run is cancelled, at any moment
Cancel ==
    /\ pc # "done"
    /\ ~ctx
    /\ ctx' = TRUE
    /\ UNCHANGED <<pc, slot, iter, watched, duties, counterState, exported,
                   allValidators, bg, obs, args, ret, clock, ready>>

\* a receive from a channel that is never closed
CtxNeverDone(cancelled) == FALSE

\* case <-ctx.Done(): the receive is ready exactly once the context is
\* cancelled
CtxDone(cancelled) == cancelled

\* snapshot mode: select { case <-ctx.Done(): return ctx.Err() }
ControlSnapshot ==
    /\ pc = "snapshot"
    /\ CtxDone(ctx)
    /\ pc' = "done"
    /\ ret' = "ctx.Err"
    /\ UNCHANGED <<slot, iter, watched, duties, counterState, exported,
                   allValidators, bg, obs, args, clock, ctx, ready>>

\* the head of an iteration: the cancellation check, the replay check, then
\* currentSlot := w.clock.CurrentSlot(); a live clock never runs backwards
ControlTop ==
    /\ pc = "top"
    /\ IF CtxDone(ctx)
       THEN pc' = "done" /\ ret' = "ctx.Err" /\ UNCHANGED <<slot, iter>>
       ELSE \E wall \in WallTimes :
              IF clock[1].replayMode /\ ReplayComplete(clock[1], wall)
              THEN pc' = "done" /\ ret' = "nil" /\ UNCHANGED <<slot, iter>>
              ELSE /\ clock[1].replayMode \/ CurrentSlot(clock[1], wall) >= slot
                   /\ slot' = CurrentSlot(clock[1], wall)
                   /\ iter' = MaxRequests
                   /\ pc' = "iterate"
                   /\ ret' = ret
    /\ UNCHANGED <<watched, duties, counterState, exported, allValidators,
                   bg, obs, args, clock, ctx, ready>>

\* one beacon request of a step of the iteration: it ends at its first
\* attempt, or the attempt fails in a way that is retried and the request
\* enters its back-off
ControlRequest ==
    /\ pc = "iterate"
    /\ iter > 0
    /\ \/ iter' = iter - 1 /\ UNCHANGED <<pc, bg>>
       \/ pc' = "backoff" /\ bg' = 1 /\ iter' = iter
    /\ UNCHANGED <<slot, watched, duties, counterState, exported,
                   allValidators, obs, args, ret, clock, ctx, ready>>

\* doRequest in its back-off: select on ctx.Done() and the timer; on the
\* timer the next attempt is made and ends the request or is retried while
\* attempts remain
ControlBackoff ==
    /\ pc = "backoff"
    /\ \/ CtxDone(ctx) /\ pc' = "iterate" /\ bg' = 0 /\ iter' = iter - 1
       \/ pc' = "iterate" /\ bg' = 0 /\ iter' = iter - 1
       \/ bg + 1 < MaxRetries /\ bg' = bg + 1 /\ UNCHANGED <<pc, iter>>
    /\ UNCHANGED <<slot, watched, duties, counterState, exported,
                   allValidators, obs, args, ret, clock, ctx, ready>>

\* the steps of the iteration are over (each failure logged) and
\* updateMetrics has run
ControlBodyDone ==
    /\ pc = "iterate"
    /\ pc' = "wait"
    /\ iter' = 0
    /\ UNCHANGED <<slot, watched, duties, counterState, exported,
                   allValidators, bg, obs, args, ret, clock, ctx, ready>>

\* WaitUntilNextSlot: at once in replay mode; in live mode at once when the
\* slot is over, else select on ctx.Done() and the timer
ControlWait ==
    /\ pc = "wait"
    /\ \/ pc' = "top" /\ ret' = ret
       \/ /\ ~clock[1].replayMode
          /\ CtxDone(ctx)
          /\ pc' = "done"
          /\ ret' = "ctx.Err"
    /\ UNCHANGED <<slot, iter, watched, duties, counterState, exported,
                   allValidators, bg, obs, args, clock, ctx, ready>>

NextControl ==
    \/ Cancel
    \/ ControlSnapshot
    \/ ControlTop
    \/ ControlRequest
    \/ ControlBackoff
    \/ ControlBodyDone
    \/ ControlWait

\* the goroutine of mainLoop keeps running and timers fire; nothing forces
\* a cancellation
SpecControl ==
    /\ InitControl
    /\ [][NextControl]_vars
    /\ WF_vars(ControlSnapshot)
    /\ WF_vars(ControlTop)
    /\ WF_vars(ControlRequest)
    /\ WF_vars(ControlBackoff)
    /\ WF_vars(ControlBodyDone)
    /\ WF_vars(ControlWait)

\* a replay clock whose start timestamp is below its end timestamp
ReplayWindowOpen ==
    /\ clock # <<>>
    /\ clock[1].replayMode
    /\ clock[1].replayEndTS # NilTS
    /\ clock[1].replayStartTS[1] < clock[1].replayEndTS[1]

\* C11: in replay mode with replay_start_at_ts < replay_end_at_ts the main
\* loop, unless it is cancelled, eventually reaches replay completion and
\* returns nil.
C11_ReplayTerminates ==
    ReplayWindowOpen => <>(ctx \/ (pc = "done" /\ ret = "nil"))

(***************************************************************************)
(* Properties of the main loop                                             *)
(***************************************************************************)
\* the phases of one iteration in the order the loop goes through them
Phases ==
    <<"top", "epoch", "liveness", "rewards", "reload", "block", "attest",
      "metrics", "wait">>

PhaseRank(p) == CHOOSE i \in 1..Len(Phases) : Phases[i] = p

\* C12: in live mode the loop returns only when the context is cancelled,
\* at the head of the loop or in the wait; every step of an iteration,
\* failed or not, is followed by a later phase of the same iteration, and
\* the wait by the head of the next iteration.
C12_LoopSurvivesFailures ==
    [][/\ (pc # "done" /\ pc' = "done") => (ctx' /\ pc \in {"top", "wait"})
       /\ (pc \notin {"wait", "done"} /\ pc' \notin {pc, "done"})
             => PhaseRank(pc') > PhaseRank(pc)
       /\ (pc = "wait" /\ pc' \notin {pc, "done"}) => pc' = "top"]_vars

\* the second iteration of a run went past an attestation step whose
\* request for the rosters failed
C12_Witness ==
    /\ pc = "metrics"
    /\ iter = 2
    /\ obs.step = "attest"
    /\ obs.requests # {}
    /\ ~obs.ok
    /\ ~ctx

\* the position at which the loop runs a phase
PhaseDue(q, s) ==
    CASE q = "epoch" -> s % SlotsPerEpoch = 0
      [] q = "liveness" -> s % SlotsPerEpoch = 16
      [] q = "rewards" -> s % SlotsPerEpoch = 17 /\ s \div SlotsPerEpoch >= 2
      [] q = "reload" -> s % SlotsPerEpoch = 15
      [] OTHER -> TRUE

\* every phase an iteration enters is due at the position of its slot, and
\* every phase it passes over is not: epoch processing runs exactly at
\* position 0, the liveness pass exactly at 16, the reward pass exactly at
\* 17 from epoch 2 on, the block and attestation pass at every position
PhaseSchedule ==
    (pc \notin {"wait", "done"} /\ pc' \notin {pc, "done"}) =>
       /\ PhaseDue(pc', slot)
       /\ \A q \in Range(Phases) :
             (PhaseRank(pc) < PhaseRank(q) /\ PhaseRank(q) < PhaseRank(pc'))
                => ~PhaseDue(q, slot)

\* the epoch a pass asks the node about is the epoch of the slot less n
PassEpoch(kind, n) ==
    (pc = kind /\ obs'.step = kind /\ obs'.requests # {}) =>
       obs'.requests =
          {EpochRequest(kind, [wrapped |-> FALSE,
                               value |-> SlotToEpoch(slot) - n])}

\* C25 (as stated): in an iteration at slot s, position p, epoch e, epoch
\* processing runs iff p = 0, the liveness pass for epoch e - 1 runs iff
\* p = 16, the reward pass for epoch e - 2 runs iff p = 17 and e >= 2, and
\* the block and attestation pass runs at every position.
C25_PhasesAtPositions ==
    [][PhaseSchedule /\ PassEpoch("liveness", 1) /\ PassEpoch("rewards", 2)]_vars

\* the schedule of the phases alone, and the epoch of the reward pass
C25_ScheduleAndRewardEpoch ==
    [][PhaseSchedule /\ PassEpoch("rewards", 2)]_vars

\* the updates of an iteration in the order the claim gives them
ClaimedOrder == <<"block", "attest", "liveness", "rewards", "metrics">>

ClaimedRank(p) == CHOOSE i \in 1..Len(ClaimedOrder) : ClaimedOrder[i] = p

\* the publish of an iteration shows the block counters of the registry as
\* the passes of the iteration left it
PublishShowsRegistry ==
    (pc = "metrics" /\ pc' # pc /\ DOMAIN watched # {}) =>
       /\ pc' = "wait"
       /\ WatchedScope \in DOMAIN counterState'
       /\ \A c \in {"ProposedBlocks", "MissedBlocks"} :
             /\ counterState'[WatchedScope][c]
                   = SumOver(DOMAIN watched, [i \in DOMAIN watched |-> watched[i][c]])
             /\ exported'[WatchedScope][c] >= counterState'[WatchedScope][c]
                   - (IF WatchedScope \in DOMAIN counterState
                      THEN counterState[WatchedScope][c] ELSE 0)

C13_CancellationReturns ==
    /\ ctx ~> (pc = "done" /\ ret = "ctx.Err")
    /\ [][ctx => ~(pc = "top" /\ pc' = "iterate")]_vars

\* a live loop that has gone through an iteration returned the
\* cancellation error
C13_Witness ==
    /\ pc = "done"
    /\ ret = "ctx.Err"
    /\ ctx
    /\ clock # <<>>
    /\ ~clock[1].replayMode
    /\ slot > 0

(***************************************************************************)
(* Run up to the main loop: initialize, then the metrics server            *)
(***************************************************************************)
\* the configurations a run is started with: load_all_validators, and no
\* watched key, the three configured keys, or only the key of a validator
\* the network does not know
InitConfigs ==
    [LoadAllValidators : BOOLEAN,
     WatchedKeys : {<<>>, WatchedKeys, SubSeq(WatchedKeys, 3, 3)}]

\* a beacon request of initialize and whether it returned without error
Answered(kind, ok) == [kind |-> kind, ok |-> ok]

\* the entries of the head state the node returns for a list of pubkeys
SelectByPubkey(snapshot, keys) ==
    SelectSeq(snapshot,
              LAMBDA v : \E k \in 1..Len(keys) : keys[k].PublicKey = v.Pubkey)

\* NewValidatorWatcher has returned and Run is called: no clock, empty
\* registries, ready false, no server
InitInitialize ==
    /\ pc = "genesis"
    /\ args \in InitConfigs
    /\ clock = <<>>
    /\ ctx = FALSE
    /\ ready = FALSE
    /\ ret = "none"
    /\ obs = NoObs
    /\ slot = 0 /\ iter = 0 /\ bg = 0
    /\ watched = <<>> /\ allValidators = <<>>
    /\ duties = <<>> /\ counterState = <<>> /\ exported = <<>>

\* genesis, err := w.beaconClient.GetGenesis(ctx): a failure is logged and
\* the clock is given up
GetGenesis ==
    /\ pc = "genesis"
    /\ \E ok \in BOOLEAN :
         /\ obs' = [obs EXCEPT !.requests = @ \cup {Answered("genesis", ok)}]
         /\ pc' = IF ok THEN "spec" ELSE "load"
    /\ UNCHANGED <<slot, iter, watched, duties, counterState, exported,
                   allValidators, bg, args, ret, clock, ctx, ready>>

\* spec, err = w.beaconClient.GetSpec(ctx), then the clock when both answers
\* are there
GetSpec ==
    /\ pc = "spec"
    /\ \E ok \in BOOLEAN :
         /\ obs' = [obs EXCEPT !.requests = @ \cup {Answered("spec", ok)}]
         /\ clock' = IF ok THEN <<NewBeaconClock>> ELSE clock
    /\ pc' = "load"
    /\ UNCHANGED <<slot, iter, watched, duties, counterState, exported,
                   allValidators, bg, args, ret, ctx, ready>>

\* what initialize and Run do once the validators are loaded without error:
\* w.ready = true, go w.startMetricsServer(), mainLoop
Initialized ==
    /\ ready' = TRUE
    /\ pc' = "running"

\* loadAllValidators up to its return or to its call of
\* loadWatchedValidatorsOnly
LoadAllValidators ==
    /\ pc = "load"
    /\ LET watchedOnly ==
               /\ UNCHANGED <<watched, allValidators>>
               /\ IF Len(args.WatchedKeys) = 0
                  THEN Initialized
                  ELSE pc' = "watchedOnly" /\ UNCHANGED ready
       IN IF ~args.LoadAllValidators
          THEN watchedOnly /\ UNCHANGED obs
          ELSE \E resp \in ValidatorResponses :
                 /\ obs' = [obs EXCEPT !.requests =
                               @ \cup {Answered("all_validators", resp.ok)}]
                 /\ IF ~resp.ok
                    THEN watchedOnly
                    ELSE LET found ==
                                 SelectByPubkey(resp.data, args.WatchedKeys)
                         IN /\ allValidators' = resp.data
                            /\ watched' =
                                 IF Len(found) > 0
                                 THEN WatchedUpdate(found, args.WatchedKeys)
                                 ELSE watched
                            /\ Initialized
    /\ UNCHANGED <<slot, iter, duties, counterState, exported, bg, args, ret,
                   clock, ctx>>

\* loadWatchedValidatorsOnly with its single batch of pubkeys: an error of
\* the request is the error of initialize and of Run
LoadWatchedValidatorsOnly ==
    /\ pc = "watchedOnly"
    /\ \E resp \in {Failed} \cup
                   {Ok(SelectByPubkey(sn, args.WatchedKeys)) :
                       sn \in BeaconSnapshots} :
         /\ obs' = [obs EXCEPT !.requests =
                       @ \cup {Answered("validators_by_pubkeys", resp.ok)}]
         /\ IF ~resp.ok
            THEN /\ pc' = "failed"
                 /\ UNCHANGED <<watched, ready>>
            ELSE /\ watched' = IF Len(resp.data) > 0
                               THEN WatchedUpdate(resp.data, args.WatchedKeys)
                               ELSE watched
                 /\ Initialized
    /\ UNCHANGED <<slot, iter, duties, counterState, exported, allValidators,
                   bg, args, ret, clock, ctx>>

\* the handler of /ready of the server Run has started: 200 when w.ready,
\* 503 otherwise
ServeReady ==
    /\ pc = "running"
    /\ ret' = IF ready THEN "200" ELSE "503"
    /\ UNCHANGED <<pc, slot, iter, watched, duties, counterState, exported,
                   allValidators, bg, obs, args, clock, ctx, ready>>

NextInitialize ==
    \/ GetGenesis
    \/ GetSpec
    \/ LoadAllValidators
    \/ LoadWatchedValidatorsOnly
    \/ ServeReady

SpecInitialize == InitInitialize /\ [][NextInitialize]_vars

\* a request that loads validators has returned without error
LoadSucceeded ==
    \E r \in obs.requests :
        r.kind \in {"all_validators", "validators_by_pubkeys"} /\ r.ok

\* C14: the ready flag is true only in states where a validator load of
\* initialize has succeeded, it is never true once initialization has
\* failed, and /ready answers success exactly when the flag is true.
C14_ReadyOnlyAfterLoad ==
    /\ ready => LoadSucceeded
    /\ pc = "failed" => ~ready
    /\ ret # "none" => (ret = "200" <=> ready)

(***************************************************************************)
(* The two registries under the epoch refresh and its background load      *)
(***************************************************************************)
MaxHead == 2

MaxEpochs == 3

\* the validators of the head state: the registry of the chain only grows,
\* one deposit at a time
HeadSnapshot(h) ==
    IF 1 + h > Len(InitialSnapshot)
    THEN InitialSnapshot
    ELSE SubSeq(InitialSnapshot, 1, 1 + h)

\* the watched keys of the run, with the labels of one of the configurations
RegistryConfigs ==
    {WatchedKeys,
     [i \in 1..Len(WatchedKeys) |->
        [PublicKey |-> WatchedKeys[i].PublicKey, Labels |-> <<>>]],
     [i \in 1..Len(WatchedKeys) |->
        [PublicKey |-> WatchedKeys[i].PublicKey,
         Labels |-> <<"scope:watched", "operator:a", "operator:a">>]],
     Append(WatchedKeys, [PublicKey |-> "pk0", Labels |-> <<"team:x">>])}

\* Run is called under one of the configurations, the head of the chain at
\* its first state; slot is the number of deposits the head has seen since,
\* bg the background loads that are not answered yet, obs.committees the
\* answers that are not installed yet, iter the calls of processEpoch
InitRegistry ==
    /\ pc = "load"
    /\ args \in [LoadAllValidators : {TRUE}, WatchedKeys : RegistryConfigs]
    /\ slot = 0
    /\ iter = 0
    /\ bg = 0
    /\ obs = NoObs
    /\ watched = <<>> /\ allValidators = <<>>
    /\ clock = <<NewBeaconClock>>
    /\ ctx = FALSE
    /\ ready = FALSE
    /\ ret = "none"
    /\ duties = <<>> /\ counterState = <<>> /\ exported = <<>>

\* a deposit is included: the head state has one validator more
HeadAdvances ==
    /\ slot < MaxHead
    /\ slot' = slot + 1
    /\ UNCHANGED <<pc, iter, watched, duties, counterState, exported,
                   allValidators, bg, obs, args, ret, clock, ctx, ready>>

\* loadAllValidators at the head of the moment: the full set and the watched
\* entries found in it, or the watched validators by pubkey when the full
\* load fails
RegistryLoad ==
    /\ pc = "load"
    /\ \E full \in {Failed, Ok(HeadSnapshot(slot))},
          byKey \in {Failed,
                     Ok(SelectByPubkey(HeadSnapshot(slot), args.WatchedKeys))} :
         LET loaded == IF full.ok
                       THEN SelectByPubkey(full.data, args.WatchedKeys)
                       ELSE byKey.data
         IN /\ allValidators' = full.data
            /\ watched' = IF Len(loaded) > 0
                          THEN WatchedUpdate(loaded, args.WatchedKeys)
                          ELSE watched
            /\ IF full.ok \/ byKey.ok
               THEN pc' = "loop" /\ ready' = TRUE
               ELSE pc' = "failed" /\ UNCHANGED ready
    /\ UNCHANGED <<slot, iter, duties, counterState, exported, bg, obs, args,
                   ret, clock, ctx>>

\* processEpoch at the first slot of an epoch: the background load is
\* started, the watched indices are looked up in the full set and the
\* watched registry is rebuilt from GetValidators at the head
RegistryProcessEpoch ==
    /\ pc = "loop"
    /\ iter < MaxEpochs
    /\ iter' = iter + 1
    /\ bg' = bg + 1
    /\ \E resp \in {Failed, Ok(HeadSnapshot(slot))} :
         LET watchedIndices == WatchedIndices(allValidators, args.WatchedKeys)
         IN watched' =
              IF watchedIndices = {} \/ ~resp.ok
              THEN watched
              ELSE WatchedUpdate(SelectByIndex(resp.data, watchedIndices),
                                 args.WatchedKeys)
    /\ UNCHANGED <<pc, slot, duties, counterState, exported, allValidators,
                   obs, args, ret, clock, ctx, ready>>

\* the beacon node answers GetAllValidators of one background load with an
\* error, which ends the goroutine, or with the head state of the moment
BackgroundAnswer ==
    /\ bg > 0
    /\ bg' = bg - 1
    /\ \/ UNCHANGED obs
       \/ obs' = [obs EXCEPT !.committees = Append(@, HeadSnapshot(slot))]
    /\ UNCHANGED <<pc, slot, iter, watched, duties, counterState, exported,
                   allValidators, args, ret, clock, ctx, ready>>

\* a goroutine that holds its answer calls w.allValidators.Update(allVals);
\* the goroutines are not ordered among themselves
BackgroundUpdate ==
    /\ \E k \in 1..Len(obs.committees) :
         /\ allValidators' = obs.committees[k]
         /\ obs' = [obs EXCEPT !.committees =
                       SubSeq(@, 1, k - 1) \o SubSeq(@, k + 1, Len(@))]
    /\ UNCHANGED <<pc, slot, iter, watched, duties, counterState, exported,
                   bg, args, ret, clock, ctx, ready>>

NextRegistry ==
    \/ HeadAdvances
    \/ RegistryLoad
    \/ RegistryProcessEpoch
    \/ BackgroundAnswer
    \/ BackgroundUpdate

SpecRegistry == InitRegistry /\ [][NextRegistry]_vars

\* C15: once a full load has filled the all-validators registry, every
\* entry of the watched registry has a pubkey that the all-validators
\* registry holds, whatever background load has replaced it.
C15_WatchedWithinAll ==
    Len(allValidators) > 0 =>
        \A i \in DOMAIN watched :
            \E k \in 1..Len(allValidators) :
                allValidators[k].Pubkey = watched[i].Pubkey

\* C16: after any sequence of WatchedValidators.Update calls, the labels of
\* every watched validator are scope:all-network, scope:watched and then
\* the labels of the configuration entry of its pubkey, in their order and
\* with their repetitions.
C16_ScopeLabelsThenUserLabels ==
    \A i \in DOMAIN watched :
        /\ \E k \in 1..Len(args.WatchedKeys) :
              /\ args.WatchedKeys[k].PublicKey = watched[i].Pubkey
              /\ watched[i].Labels =
                    <<"scope:all-network", "scope:watched">>
                    \o args.WatchedKeys[k].Labels
        /\ {"scope:all-network", "scope:watched"} \subseteq Range(watched[i].Labels)

\* the registry was rebuilt twice after the first load, under a
\* configuration that repeats a label and gives scope:watched itself
C16_Witness ==
    /\ iter >= 2
    /\ \E i \in DOMAIN watched :
          watched[i].Labels =
             <<"scope:all-network", "scope:watched", "scope:watched",
               "operator:a", "operator:a">>

(***************************************************************************)
(* doRequest: one beacon request and its attempts                          *)
(***************************************************************************)
\* what one call of httpClient.Do and the reading of its response come to:
\* an error of Do, or a status with the body read (err "none"), with a
\* body that cannot be read, or with a body that is not the JSON expected
Transport == [status |-> 0, err |-> "transport"]

Response(status, err) == [status |-> status, err |-> err]

AttemptOutcomes ==
    {Transport}
    \cup {Response(st, "none") : st \in {200, 400, 404, 500, 503}}
    \cup {Response(200, "json"), Response(200, "read"), Response(404, "read")}

\* what the node and the network do to the successive attempts
Scripts == [1..MaxRetries -> AttemptOutcomes]

\* the loop retries whatever error the response carries
RetryAnyError(o) == o.err \in {"transport", "read"} \/ o.status >= 400

\* the iterations that end in continue: an error of Do or of io.ReadAll,
\* a status >= 500
ShouldRetry(o) == o.err \in {"transport", "read"} \/ o.status >= 500

\* doRequest is called: marshalFails for a body json.Marshal rejects,
\* badRequest for a method or URL http.NewRequestWithContext rejects; iter
\* is the loop variable attempt, bg the calls of httpClient.Do made and
\* obs.attestations what each of them came to
InitRequest ==
    /\ pc = "attempt"
    /\ args \in [marshalFails : BOOLEAN, badRequest : BOOLEAN, script : Scripts]
    /\ iter = 0
    /\ bg = 0
    /\ ctx = FALSE
    /\ ret = "none"
    /\ obs = NoObs
    /\ slot = 0
    /\ clock = <<NewBeaconClock>>
    /\ ready = TRUE
    /\ watched = <<>> /\ allValidators = <<>>
    /\ duties = <<>> /\ counterState = <<>> /\ exported = <<>>

\* continue: the next iteration with its back-off, or the end of the loop
\* and "request failed after 3 attempts"
Continue ==
    /\ iter' = iter + 1
    /\ IF iter + 1 < MaxRetries
       THEN pc' = "backoff" /\ ret' = ret
       ELSE pc' = "done" /\ ret' = "error"

\* one iteration of the loop after its back-off; Do fails at once under a
\* cancelled context
RequestAttempt ==
    /\ pc = "attempt"
    /\ IF args.marshalFails
       THEN pc' = "done" /\ ret' = "error" /\ UNCHANGED <<iter, bg, obs>>
       ELSE IF args.badRequest
       THEN Continue /\ UNCHANGED <<bg, obs>>
       ELSE LET o == IF ctx THEN Transport ELSE args.script[iter + 1]
            IN /\ bg' = bg + 1
               /\ obs' = [obs EXCEPT !.attestations = Append(@, o)]
               /\ IF ShouldRetry(o)
                  THEN Continue
                  ELSE /\ pc' = "done"
                       /\ ret' = IF o.status >= 400 \/ o.err = "json"
                                 THEN "error" ELSE "nil"
                       /\ UNCHANGED iter
    /\ UNCHANGED <<slot, watched, duties, counterState, exported,
                   allValidators, args, clock, ctx, ready>>

\* select { case <-ctx.Done(): return ctx.Err();
\*          case <-time.After(retryDelay * attempt): }
RequestBackoff ==
    /\ pc = "backoff"
    /\ \/ CtxDone(ctx) /\ pc' = "done" /\ ret' = "ctx.Err"
       \/ pc' = "attempt" /\ ret' = ret
    /\ UNCHANGED <<slot, iter, watched, duties, counterState, exported,
                   allValidators, bg, obs, args, clock, ctx, ready>>

NextRequest ==
    \/ Cancel
    \/ RequestAttempt
    \/ RequestBackoff

SpecRequest == InitRequest /\ [][NextRequest]_vars

\* the attempts made so far, in their order
Attempts == obs.attestations

Succeeded(o) == o.status = 200 /\ o.err = "none"

\* a status from 400 to 499 with its body read
ClientError(o) == o.status >= 400 /\ o.status < 500 /\ o.err = "none"

\* C17: a request is attempted at most 3 times; an attempt is followed by
\* another one only if it met a transport error or a status >= 500; a 4xx
\* answer ends the request with an error and a success ends it without
\* error, at that attempt; a 500 followed by a success is exactly 2
\* attempts.
C17_RetryPolicy ==
    /\ bg = Len(Attempts)
    /\ Len(Attempts) <= 3
    /\ \A j \in 1..(Len(Attempts) - 1) :
          Attempts[j].err \in {"transport", "read"} \/ Attempts[j].status >= 500
    /\ \A j \in 1..Len(Attempts) :
          /\ ClientError(Attempts[j])
                => j = Len(Attempts) /\ pc = "done" /\ ret = "error"
          /\ Succeeded(Attempts[j])
                => j = Len(Attempts) /\ pc = "done" /\ ret = "nil"
    /\ (/\ Len(Attempts) >= 2
        /\ Attempts[1] = Response(500, "none")
        /\ Succeeded(Attempts[2]))
          => Len(Attempts) = 2 /\ ret = "nil"

\* the request of the retry test: a 500, then a success at the second
\* attempt
C17_Witness ==
    /\ pc = "done"
    /\ ret = "nil"
    /\ Attempts = <<Response(500, "none"), Response(200, "none")>>

(***************************************************************************)
(* ProcessRewards on its own: bounded responses, one call                  *)
(***************************************************************************)
\* ideal_rewards lists: none, one balance, both balances in either order
IdealLists ==
    LET full == Reward(FullStakeEth, 1000, 2000, 3000)
        half == Reward(16, 500, 1000, 1500)
    IN {<<>>, <<full>>, <<half>>, <<full, half>>, <<half, full>>}

\* what total_rewards may hold for one validator: less than ideal at source
\* and head, the ideal itself, more than the ideal, penalties
TotalsOf(idx) ==
    {Reward(idx, 900, 2000, 2500), Reward(idx, 1000, 2000, 3000),
     Reward(idx, 1100, 2000, 3000), Reward(idx, -100, -200, -300)}

\* total_rewards lists: at most one entry for each of validators 0 and 1
TotalLists ==
    {a \o b : a \in {<<>>} \cup {<<t>> : t \in TotalsOf(0)},
              b \in {<<>>} \cup {<<t>> : t \in TotalsOf(1)}}

\* the requested sets: validator index -> effective balance
RequestedBalances ==
    {<<>>, (0 :> FullStakeEth), (0 :> FullStakeEth) @@ (1 :> 16),
     (0 :> 8) @@ (1 :> FullStakeEth), (1 :> 16) @@ (2 :> FullStakeEth)}

InitRewards ==
    /\ pc = "call"
    /\ args \in [rewards : [IdealRewards : IdealLists, TotalRewards : TotalLists],
                 validators : RequestedBalances]
    /\ ret = <<>>
    /\ slot = 0 /\ iter = 0 /\ bg = 0 /\ obs = NoObs
    /\ watched = <<>> /\ allValidators = <<>>
    /\ duties = <<>> /\ counterState = <<>> /\ exported = <<>>
    /\ clock = <<NewBeaconClock>> /\ ctx = FALSE /\ ready = FALSE

\* rewardData, err := ProcessRewards(rewards, validatorBalances)
CallProcessRewards ==
    /\ pc = "call"
    /\ ret' = ProcessRewards(args.rewards, args.validators)
    /\ pc' = "return"
    /\ UNCHANGED <<slot, iter, watched, duties, counterState, exported,
                   allValidators, bg, obs, args, clock, ctx, ready>>

NextRewards == CallProcessRewards

SpecRewards == InitRewards /\ [][NextRewards]_vars

\* the entries of a list under a key
EntriesOf(list, field, key) == {list[i] : i \in {j \in 1..Len(list) : list[j][field] = key}}

\* the ideal reward a validator of a balance is compared with: the entry of
\* its balance, else the entry of 32 ETH, else the only entry of the list
ExpectedIdeal(list, balance) ==
    IF EntriesOf(list, "EffectiveBalance", balance) # {}
    THEN CHOOSE e \in EntriesOf(list, "EffectiveBalance", balance) : TRUE
    ELSE IF EntriesOf(list, "EffectiveBalance", 32) # {}
    THEN CHOOSE e \in EntriesOf(list, "EffectiveBalance", 32) : TRUE
    ELSE IF Len(list) = 1 THEN list[1]
    ELSE [EffectiveBalance |-> 0, Head |-> 0, Target |-> 0, Source |-> 0]

\* C19: a requested validator that the total-rewards list holds gets an
\* entry whose three flags say that the actual component is strictly below
\* the ideal one, whose ideal_total is the sum of the ideal components and
\* whose actual_total is the signed sum of the actual ones; ideal
\* {3000, 2000, 1000} against actual {2500, 2000, 900} gives true, false,
\* true, 6000 and 5400; no other validator gets an entry.
C19_RewardsPerValidator ==
    pc = "return" =>
       /\ DOMAIN ret \subseteq DOMAIN args.validators
       /\ \A idx \in DOMAIN args.validators :
            LET totals == EntriesOf(args.rewards.TotalRewards, "ValidatorIndex", idx)
                ideal == ExpectedIdeal(args.rewards.IdealRewards,
                                       args.validators[idx])
            IN IF totals = {}
               THEN idx \notin DOMAIN ret
               ELSE /\ idx \in DOMAIN ret
                    /\ \A total \in totals :
                         /\ ret[idx].SuboptimalSource <=> total.Source < ideal.Source
                         /\ ret[idx].SuboptimalTarget <=> total.Target < ideal.Target
                         /\ ret[idx].SuboptimalHead <=> total.Head < ideal.Head
                         /\ ret[idx].IdealTotal
                               = ideal.Source + ideal.Target + ideal.Head
                         /\ ret[idx].ActualTotal
                               = total.Source + total.Target + total.Head
                         /\ (/\ ideal.Source = 3000 /\ ideal.Target = 2000
                             /\ ideal.Head = 1000 /\ total.Source = 2500
                             /\ total.Target = 2000 /\ total.Head = 900)
                               => ret[idx] =
                                     [SuboptimalSource |-> TRUE,
                                      SuboptimalTarget |-> FALSE,
                                      SuboptimalHead |-> TRUE,
                                      IdealTotal |-> 6000,
                                      ActualTotal |-> 5400]

\* the call of the example: validator 0 with the rewards of the example
\* and validator 1 requested but without a total
C19_Witness ==
    /\ pc = "return"
    /\ DOMAIN args.validators = {0, 1}
    /\ DOMAIN ret = {0}
    /\ ret[0] = [SuboptimalSource |-> TRUE, SuboptimalTarget |-> FALSE,
                 SuboptimalHead |-> TRUE, IdealTotal |-> 6000,
                 ActualTotal |-> 5400]

(***************************************************************************)
(* DecodeBitVector on its own: bounded hex strings, one call               *)
(***************************************************************************)
\* the bytes of the bit vectors, as their two hex characters
HexBytes ==
    {<<"0", "0">>, <<"0", "1">>, <<"0", "5">>, <<"5", "5">>, <<"8", "0">>,
     <<"f", "f">>, <<"A", "3">>}

\* aggregation_bits and committee_bits as the API gives them: up to two
\* bytes with or without the 0x prefix, and strings that are not hex
HexStrings ==
    LET digits == {<<>>} \cup HexBytes \cup {a \o b : a, b \in HexBytes}
    IN digits \cup {<<"0", "x">> \o d : d \in digits}
       \cup {<<"0", "x", "5">>, <<"0", "x", "g", "0">>, <<"z", "z">>}

\* the declared lengths: none, within a byte, a byte, across two bytes, two
\* bytes, more than the string holds
VectorSizes == {0, 3, 8, 12, 16, 20}

InitDecode ==
    /\ pc = "call"
    /\ args \in [bitVectorHex : HexStrings, size : VectorSizes]
    /\ ret = <<>>
    /\ slot = 0 /\ iter = 0 /\ bg = 0 /\ obs = NoObs
    /\ watched = <<>> /\ allValidators = <<>>
    /\ duties = <<>> /\ counterState = <<>> /\ exported = <<>>
    /\ clock = <<NewBeaconClock>> /\ ctx = FALSE /\ ready = FALSE

\* bits, err := DecodeBitVector(bitVectorHex, size)
CallDecodeBitVector ==
    /\ pc = "call"
    /\ ret' = DecodeBitVector(args.bitVectorHex, args.size)
    /\ pc' = "return"
    /\ UNCHANGED <<slot, iter, watched, duties, counterState, exported,
                   allValidators, bg, obs, args, clock, ctx, ready>>

NextDecode == CallDecodeBitVector

SpecDecode == InitDecode /\ [][NextDecode]_vars

\* the hex characters of a string without its 0x prefix
HexBody(str) ==
    IF Len(str) >= 2 /\ SubSeq(str, 1, 2) = <<"0", "x">>
    THEN SubSeq(str, 3, Len(str)) ELSE str

\* the value of byte k (from 0) of a string of hex characters
ByteAt(body, k) == 16 * HexDigit(body[2 * k + 1]) + HexDigit(body[2 * k + 2])

\* bit j of a byte, bit 0 being the least significant one
BitSet(byte, j) == byte % (2 ^ (j + 1)) >= 2 ^ j

\* C21: DecodeBitVector(hex, size) returns exactly the positions p < size
\* for which bit (p mod 8) of byte floor(p / 8) is 1, least significant bit
\* first, and ignores the bits at size and above; 0x05, 0x80 and 0x55 with
\* size 8 give {0, 2}, {7} and {0, 2, 4, 6}.
C21_BitPositions ==
    (pc = "return" /\ ret.ok) =>
       LET body == HexBody(args.bitVectorHex)
       IN /\ ret.bits =
                {p \in 0..(args.size - 1) :
                    /\ p \div 8 < Len(body) \div 2
                    /\ BitSet(ByteAt(body, p \div 8), p % 8)}
          /\ (args.size = 8 /\ body = <<"0", "5">>) => ret.bits = {0, 2}
          /\ (args.size = 8 /\ body = <<"8", "0">>) => ret.bits = {7}
          /\ (args.size = 8 /\ body = <<"5", "5">>) => ret.bits = {0, 2, 4, 6}

\* 0x05ff decoded with size 12: the positions of the first byte, and of the
\* second byte only those below 12
C21_Witness ==
    /\ pc = "return"
    /\ args.bitVectorHex = <<"0", "x", "0", "5", "f", "f">>
    /\ args.size = 12
    /\ ret.ok
    /\ ret.bits = {0, 2, 8, 9, 10, 11}

(***************************************************************************)
(* The arithmetic of the clock on its own: bounded times, slots and epochs *)
(***************************************************************************)
\* wall-clock readings: before genesis, at genesis, within and at the end
\* of a slot, around the first slot of epoch 1
ClockWalls ==
    {0, 23, 24, 35, 36, 24 + 32 * 12 - 1, 24 + 32 * 12, 24 + 33 * 12}

ClockSlots == {0, 1, 31, 32, 33, 64, 95}

ClockEpochs == 0..3

InitClock ==
    /\ pc = "call"
    /\ clock \in ControlClocks \ {<<>>}
    /\ args \in [wall : ClockWalls, slot : ClockSlots, epoch : ClockEpochs]
    /\ ret = <<>>
    /\ slot = 0 /\ iter = 0 /\ bg = 0 /\ obs = NoObs
    /\ watched = <<>> /\ allValidators = <<>>
    /\ duties = <<>> /\ counterState = <<>> /\ exported = <<>>
    /\ ctx = FALSE /\ ready = FALSE

\* the methods of the clock called at wall time args.wall
CallClock ==
    /\ pc = "call"
    /\ ret' = [CurrentSlot |-> CurrentSlot(clock[1], args.wall),
               TimeToSlot |-> TimeToSlot(clock[1], args.wall),
               SlotToEpoch |-> SlotToEpoch(args.slot),
               EpochToSlot |-> EpochToSlot(args.epoch),
               RoundTrip |-> SlotToEpoch(EpochToSlot(args.epoch)),
               IsFirstSlotOfEpoch |-> IsFirstSlotOfEpoch(args.slot)]
    /\ pc' = "return"
    /\ UNCHANGED <<slot, iter, watched, duties, counterState, exported,
                   allValidators, bg, obs, args, clock, ctx, ready>>

NextClock == CallClock

SpecClock == InitClock /\ [][NextClock]_vars

\* q is floor((t - genesis) / seconds_per_slot), and 0 before genesis
IsSlotOfTime(q, t) ==
    IF t < 24 THEN q = 0
    ELSE q >= 0 /\ q * 12 <= t - 24 /\ t - 24 < (q + 1) * 12

\* the conversions between slots and epochs as the claim states them
EpochArithmetic ==
    /\ ret.SlotToEpoch >= 0
    /\ ret.SlotToEpoch * 32 <= args.slot
    /\ args.slot < (ret.SlotToEpoch + 1) * 32
    /\ ret.EpochToSlot = args.epoch * 32
    /\ ret.RoundTrip = args.epoch
    /\ ret.IsFirstSlotOfEpoch <=> args.slot = ret.SlotToEpoch * 32
    /\ args.slot = 32 => (ret.SlotToEpoch = 1 /\ ret.IsFirstSlotOfEpoch)

\* C22 as stated: the current slot is floor((wall - genesis) /
\* seconds_per_slot) of the wall time, 0 before genesis, for every clock,
\* and the epoch conversions are division and multiplication by
\* slots_per_epoch.
C22_CurrentSlotOfWall ==
    pc = "return" =>
       /\ IsSlotOfTime(ret.CurrentSlot, args.wall)
       /\ IsSlotOfTime(ret.TimeToSlot, args.wall)
       /\ EpochArithmetic

\* C22: the current slot is floor((t - genesis) / seconds_per_slot), 0
\* before genesis, where t is the wall time on a live clock and the replay
\* start timestamp on a replay clock; TimeToSlot is that function of its
\* argument; the epoch conversions are division and multiplication by
\* slots_per_epoch, SlotToEpoch(EpochToSlot(e)) = e, and a slot is the first
\* of its epoch exactly when it is EpochToSlot(SlotToEpoch(s)).
C22_ClockArithmetic ==
    pc = "return" =>
       /\ IsSlotOfTime(ret.CurrentSlot,
                       IF clock[1].replayMode /\ clock[1].replayStartTS # NilTS
                       THEN clock[1].replayStartTS[1] ELSE args.wall)
       /\ IsSlotOfTime(ret.TimeToSlot, args.wall)
       /\ EpochArithmetic

\* a live clock read 32 slots after genesis: slot 32, epoch 1, first slot
C22_Witness ==
    /\ pc = "return"
    /\ ~clock[1].replayMode
    /\ args.wall = 24 + 32 * 12
    /\ args.slot = 32
    /\ ret.CurrentSlot = 32
    /\ ret.SlotToEpoch = 1
    /\ ret.IsFirstSlotOfEpoch

(***************************************************************************)
(* updateMetrics over a registry that is refreshed between the cycles      *)
(***************************************************************************)
MaxDuties == 1

\* the registry starts empty (NewWatchedValidators); the all-validators
\* snapshot is empty when the initial load failed
InitCycle ==
    /\ pc = "cycle"
    /\ iter = 0
    /\ watched = <<>>
    /\ allValidators \in {<<>>} \cup BeaconSnapshots
    /\ counterState = <<>>
    /\ exported = <<>>
    /\ args = <<>>
    /\ ret = <<>>
    /\ slot = 0 /\ duties = <<>> /\ bg = 0 /\ obs = NoObs
    /\ clock = <<NewBeaconClock>> /\ ctx = FALSE /\ ready = FALSE

\* processEpoch's refresh: the registry is rebuilt from the validators the
\* node returns for the asked indices
CycleRefresh ==
    /\ pc = "cycle"
    /\ \E sn \in BeaconSnapshots, indices \in SUBSET {0, 1} :
          watched' = WatchedUpdate(SelectByIndex(sn, indices), WatchedKeys)
    /\ UNCHANGED <<clock, ctx, ready, pc, slot, iter, duties, counterState,
                   exported, allValidators, bg, obs, args, ret>>

\* the attestation pass records one duty of a watched validator
CycleDuty ==
    /\ pc = "cycle"
    /\ \E index \in DOMAIN watched :
          /\ watched[index].AttestationDuties < MaxDuties
          /\ \/ watched' = UpdateMetrics(watched, index,
                              [i \in DOMAIN watched |-> MarkAttested(watched[i])])
             \/ watched' = UpdateMetrics(watched, index,
                              [i \in DOMAIN watched |->
                                  MarkMissedAttestation(watched[i])])
    /\ UNCHANGED <<clock, ctx, ready, pc, slot, iter, duties, counterState,
                   exported, allValidators, bg, obs, args, ret>>

\* updateMetrics: the aggregation, the network record, then the
\* exposition's UpdateMetrics with its counters and its gauges; the map of
\* the cycle is kept in args, the gauge samples in ret
CycleUpdateMetrics ==
    /\ pc = "cycle"
    /\ iter < MaxCycles
    /\ \E numWorkers \in 1..MaxWorkers :
         \E metricsByLabel \in {MetricsByLabel(watched, allValidators, numWorkers)} :
            /\ counterState' = NextCounterState(counterState, metricsByLabel)
            /\ exported' = NextExported(counterState, exported, metricsByLabel)
            /\ ret' = NextGauges(ret, metricsByLabel)
            /\ args' = metricsByLabel
    /\ iter' = iter + 1
    /\ UNCHANGED <<clock, ctx, ready, pc, slot, watched, duties,
                   allValidators, bg, obs>>

NextCycle == CycleRefresh \/ CycleDuty \/ CycleUpdateMetrics

SpecCycle == InitCycle /\ [][NextCycle]_vars

\* C23 (as stated): a metrics cycle over an empty watched registry hands
\* on a scope:watched record whose fields are all zero, next to a
\* scope:all-network record counted from the all-validators snapshot.
C23_EmptyWatchedRecord ==
    [][(iter' = iter + 1 /\ DOMAIN watched = {}) =>
          /\ "scope:watched" \in DOMAIN args'
          /\ args'["scope:watched"] = EmptyMetrics("scope:watched")
          /\ "scope:all-network" \in DOMAIN args'
          /\ args'["scope:all-network"].ValidatorCount = Len(allValidators)]_vars

\* what the code does hand on in that case: the network record alone
C23_NetworkRecordOnly ==
    [][(iter' = iter + 1 /\ DOMAIN watched = {}) =>
          /\ DOMAIN args' = {"scope:all-network"}
          /\ args'["scope:all-network"].ValidatorCount = Len(allValidators)]_vars

\* C24 (as stated): after an update cycle a scope gauge has a sample for a
\* scope only if that scope is in the map of that cycle; no series of a
\* scope that has left the aggregation remains.
C24_NoStaleGaugeSeries ==
    \A k \in DOMAIN ret : k[2] \in DOMAIN args

\* the same for the gauge vectors on the Reset list alone
C24_ResetGaugesFresh ==
    \A k \in DOMAIN ret : k[1] \in ResetGauges => k[2] \in DOMAIN args

(***************************************************************************)
(* The watched registry between the passes and the aggregation             *)
(***************************************************************************)
\* a caller on a goroutine of its own, which enters the registry whatever
\* the main loop is doing
OwnGoroutine(phase) == TRUE

\* processSlot, processLiveness, processRewards and processEpoch are called
\* by the main loop before updateMetrics, on the same goroutine: they enter
\* the registry only while the loop is in its passes
MainLoopCaller(phase) == phase = "passes"

\* the calls that write to the registry: UpdateMetrics with one of the
\* closures of the passes, ResetMetrics, and Update with a node answer
RegistryCalls ==
    {[kind |-> "UpdateMetrics", index |-> i, fn |-> f] :
        i \in ValidatorIndices, f \in {"attested", "missed", "proposed"}}
    \cup {[kind |-> "ResetMetrics", index |-> 0, fn |-> "none"]}
    \cup {[kind |-> "Update", index |-> h, fn |-> "none"] : h \in {0, 1}}

\* the closure a pass hands to UpdateMetrics
Closure(fn, wv) ==
    CASE fn = "attested" -> MarkAttested(wv)
      [] fn = "missed" -> MarkMissedAttestation(wv)
      [] fn = "proposed" -> MarkProposed(wv)

\* the registry after the body of a call
AfterCall(reg, call) ==
    CASE call.kind = "UpdateMetrics" ->
            UpdateMetrics(reg, call.index,
                          [i \in DOMAIN reg |-> Closure(call.fn, reg[i])])
      [] call.kind = "ResetMetrics" -> ResetMetrics(reg)
      [] call.kind = "Update" ->
            WatchedUpdate(IF call.index = 0 THEN InitialSnapshot
                          ELSE SelectByIndex(LaterSnapshot, {0}),
                          WatchedKeys)

\* the counters stay within the model's range
WithinRange(reg, call) ==
    call.kind = "UpdateMetrics" /\ call.index \in DOMAIN reg =>
       IF call.fn = "proposed" THEN reg[call.index].ProposedBlocks < MaxDuties
       ELSE reg[call.index].AttestationDuties < MaxDuties

\* pc is the phase of the main loop ("passes" or "compute"), bg the state
\* of a registry call ("idle" or "locked"), args the mutex of the registry,
\* the call in progress, the pointers GetAll returned and those the workers
\* have read, ret the entries as the workers read them
InitAggregate ==
    /\ pc = "passes"
    /\ bg = "idle"
    /\ iter = 0
    /\ watched = WatchedUpdate(InitialSnapshot, WatchedKeys)
    /\ allValidators = InitialSnapshot
    /\ args = [mu |-> "free", call |-> <<>>, entries |-> <<>>, read |-> {}]
    /\ ret = <<>>
    /\ counterState = <<>>
    /\ exported = <<>>
    /\ slot = 0 /\ duties = <<>> /\ obs = NoObs
    /\ clock = <<NewBeaconClock>> /\ ctx = FALSE /\ ready = TRUE

\* wv.mu.Lock() at the head of UpdateMetrics, ResetMetrics or Update
RegistryLock ==
    /\ MainLoopCaller(pc)
    /\ bg = "idle"
    /\ args.mu = "free"
    /\ \E call \in RegistryCalls :
          /\ WithinRange(watched, call)
          /\ args' = [args EXCEPT !.mu = "W", !.call = call]
    /\ bg' = "locked"
    /\ UNCHANGED <<clock, ctx, ready, pc, slot, iter, watched, duties,
                   counterState, exported, allValidators, obs, ret>>

\* the body of the call and the deferred wv.mu.Unlock()
RegistryWrite ==
    /\ bg = "locked"
    /\ watched' = AfterCall(watched, args.call)
    /\ args' = [args EXCEPT !.mu = "free", !.call = <<>>]
    /\ bg' = "idle"
    /\ UNCHANGED <<clock, ctx, ready, pc, slot, iter, duties, counterState,
                   exported, allValidators, obs, ret>>

\* updateMetrics: GetAll takes the read lock, collects the pointers to the
\* entries and releases the lock; ComputeMetrics starts on the pointers
AggregateGetAll ==
    /\ pc = "passes"
    /\ args.mu = "free"
    /\ iter < MaxCycles
    /\ args' = [args EXCEPT !.entries = SortedSeq(DOMAIN watched), !.read = {}]
    /\ ret' = <<>>
    /\ pc' = "compute"
    /\ UNCHANGED <<clock, ctx, ready, slot, iter, watched, duties,
                   counterState, exported, allValidators, bg, obs>>

\* a worker of ComputeMetrics reads the fields of one entry through its
\* pointer, holding no lock; the workers take the entries in any order
WorkerRead ==
    /\ pc = "compute"
    /\ \E p \in (1..Len(args.entries)) \ args.read :
          /\ args.entries[p] \in DOMAIN watched
          /\ ret' = (args.entries[p] :> watched[args.entries[p]]) @@ ret
          /\ args' = [args EXCEPT !.read = @ \cup {p}]
    /\ UNCHANGED <<clock, ctx, ready, pc, slot, iter, watched, duties,
                   counterState, exported, allValidators, bg, obs>>

\* wg.Wait() and the merge, then the network record and the exposition
AggregatePublish ==
    /\ pc = "compute"
    /\ \A p \in 1..Len(args.entries) :
          p \in args.read \/ args.entries[p] \notin DOMAIN watched
    /\ \E numWorkers \in 1..MaxWorkers :
         \E metricsByLabel \in {MetricsByLabel(ret, allValidators, numWorkers)} :
            /\ counterState' = NextCounterState(counterState, metricsByLabel)
            /\ exported' = NextExported(counterState, exported, metricsByLabel)
    /\ pc' = "passes"
    /\ iter' = iter + 1
    /\ args' = [args EXCEPT !.entries = <<>>, !.read = {}]
    /\ UNCHANGED <<clock, ctx, ready, slot, watched, duties, allValidators,
                   bg, obs, ret>>

\* the goroutine of processEpoch installs a snapshot of the whole network
AggregateBackground ==
    /\ \E sn \in BeaconSnapshots : allValidators' = sn
    /\ allValidators' # allValidators
    /\ UNCHANGED <<clock, ctx, ready, pc, slot, iter, watched, duties,
                   counterState, exported, bg, obs, args, ret>>

NextAggregate ==
    \/ RegistryLock
    \/ RegistryWrite
    \/ AggregateGetAll
    \/ WorkerRead
    \/ AggregatePublish
    \/ AggregateBackground

SpecAggregate == InitAggregate /\ [][NextAggregate]_vars

\* C28: no counter of a watched validator is mutated while an aggregation
\* reads it: every change of the registry is made by UpdateMetrics, Update
\* or ResetMetrics holding the exclusive lock, none of them runs between
\* the GetAll of an aggregation and the end of its ComputeMetrics, and what
\* the workers read is the registry as it stands.
C28_NoMutationDuringAggregation ==
    [][/\ watched' # watched => (args.mu = "W" /\ bg = "locked")
       /\ pc = "compute" => watched' = watched
       /\ pc' = "compute" => (bg' = "idle" /\ args'.mu = "free")
       /\ pc' = "compute" =>
             \A i \in DOMAIN ret' : i \in DOMAIN watched' /\ ret'[i] = watched'[i]]_vars

\* the second aggregation of a run is under way: a worker has read an
\* entry whose counters the passes have written since the first one
C28_Witness ==
    /\ pc = "compute"
    /\ iter = 1
    /\ \E i \in DOMAIN ret :
          ret[i].AttestationDuties > 0 /\ ret[i].ProposedBlocks > 0
    /\ Cardinality(args.read) < Len(args.entries)

(***************************************************************************)
(* AllValidators: Update against a concurrent GetByPubkey                  *)
(***************************************************************************)
\* a read that enters without waiting for the writer
AcquireReadUnlocked(mu) == TRUE

\* av.mu.RLock(): the reader enters once no writer holds the mutex
AcquireRead(mu) == ~mu.writer

\* av.mu.Lock(): the writer enters once nobody holds the mutex
AcquireWrite(mu) == ~mu.writer /\ mu.readers = 0

\* NewAllValidators: two empty maps
NewAllValidators == [validators |-> <<>>, pubkeyMap |-> <<>>]

\* the two maps after a whole Update with the given slice
RECURSIVE InstallAll(_, _)
InstallAll(reg, validators) ==
    IF validators = <<>> THEN reg
    ELSE LET v == Head(validators) IN
         InstallAll([validators |-> (v.Index :> v) @@ reg.validators,
                     pubkeyMap |-> (v.Pubkey :> v.Index) @@ reg.pubkeyMap],
                    Tail(validators))

\* the slices GetAllValidators may answer with
UpdateSlices ==
    {<<>>, InitialSnapshot, LaterSnapshot, SelectByIndex(InitialSnapshot, {0, 2})}

\* allValidators holds the two maps, args the mutex, the slice and the loop
\* index of the Update in progress and the pubkey and index of the read in
\* progress; bg is the position of the goroutine in Update, pc that of the
\* caller of GetByPubkey, ret what GetByPubkey returns
InitAllValidators ==
    /\ pc = "idle"
    /\ bg = "idle"
    /\ allValidators = NewAllValidators
    /\ args = [mu |-> [writer |-> FALSE, readers |-> 0], validators |-> <<>>,
               i |-> 0, pubkey |-> "", index |-> 0]
    /\ ret = [found |-> FALSE, nil |-> TRUE]
    /\ iter = 0 /\ slot = 0 /\ watched = <<>> /\ duties = <<>>
    /\ counterState = <<>> /\ exported = <<>> /\ obs = NoObs
    /\ clock = <<NewBeaconClock>> /\ ctx = FALSE /\ ready = TRUE

\* Update(validators): av.mu.Lock()
AllUpdateLock ==
    /\ bg = "idle"
    /\ AcquireWrite(args.mu)
    /\ \E validators \in UpdateSlices :
          args' = [args EXCEPT !.mu.writer = TRUE, !.validators = validators,
                               !.i = 0]
    /\ bg' = "clearValidators"
    /\ UNCHANGED <<clock, ctx, ready, pc, slot, iter, watched, duties,
                   counterState, exported, allValidators, obs, ret>>

\* av.validators = make(...)
AllUpdateClearValidators ==
    /\ bg = "clearValidators"
    /\ allValidators' = [allValidators EXCEPT !.validators = <<>>]
    /\ bg' = "clearPubkeyMap"
    /\ UNCHANGED <<clock, ctx, ready, pc, slot, iter, watched, duties,
                   counterState, exported, obs, args, ret>>

\* av.pubkeyMap = make(...)
AllUpdateClearPubkeyMap ==
    /\ bg = "clearPubkeyMap"
    /\ allValidators' = [allValidators EXCEPT !.pubkeyMap = <<>>]
    /\ bg' = "storeValidator"
    /\ UNCHANGED <<clock, ctx, ready, pc, slot, iter, watched, duties,
                   counterState, exported, obs, args, ret>>

\* av.validators[v.Index] = v
AllUpdateStoreValidator ==
    /\ bg = "storeValidator"
    /\ args.i < Len(args.validators)
    /\ LET v == args.validators[args.i + 1] IN
          allValidators' = [allValidators EXCEPT
                               !.validators = (v.Index :> v) @@ @]
    /\ bg' = "storePubkey"
    /\ UNCHANGED <<clock, ctx, ready, pc, slot, iter, watched, duties,
                   counterState, exported, obs, args, ret>>

\* av.pubkeyMap[v.Data.Pubkey] = v.Index, and the next turn of the loop
AllUpdateStorePubkey ==
    /\ bg = "storePubkey"
    /\ LET v == args.validators[args.i + 1] IN
          allValidators' = [allValidators EXCEPT
                               !.pubkeyMap = (v.Pubkey :> v.Index) @@ @]
    /\ args' = [args EXCEPT !.i = @ + 1]
    /\ bg' = "storeValidator"
    /\ UNCHANGED <<clock, ctx, ready, pc, slot, iter, watched, duties,
                   counterState, exported, obs, ret>>

\* the end of the loop and the deferred av.mu.Unlock()
AllUpdateUnlock ==
    /\ bg = "storeValidator"
    /\ args.i >= Len(args.validators)
    /\ args' = [args EXCEPT !.mu.writer = FALSE, !.validators = <<>>, !.i = 0]
    /\ bg' = "idle"
    /\ UNCHANGED <<clock, ctx, ready, pc, slot, iter, watched, duties,
                   counterState, exported, allValidators, obs, ret>>

\* GetByPubkey(pubkey): av.mu.RLock()
GetByPubkeyLock ==
    /\ pc = "idle"
    /\ AcquireRead(args.mu)
    /\ \E pubkey \in {"pk0", "pk1", "pk9"} :
          args' = [args EXCEPT !.mu.readers = @ + 1, !.pubkey = pubkey]
    /\ pc' = "lookup"
    /\ UNCHANGED <<clock, ctx, ready, slot, iter, watched, duties,
                   counterState, exported, allValidators, bg, obs, ret>>

\* index, ok := av.pubkeyMap[pubkey]; if !ok { return nil, false }
GetByPubkeyLookup ==
    /\ pc = "lookup"
    /\ IF args.pubkey \in DOMAIN allValidators.pubkeyMap
       THEN /\ args' = [args EXCEPT !.index = allValidators.pubkeyMap[args.pubkey]]
            /\ pc' = "fetch"
            /\ UNCHANGED ret
       ELSE /\ ret' = [found |-> FALSE, nil |-> TRUE]
            /\ pc' = "unlock"
            /\ UNCHANGED args
    /\ UNCHANGED <<clock, ctx, ready, slot, iter, watched, duties,
                   counterState, exported, allValidators, bg, obs>>

\* return av.validators[index], true: nil when the index map has no entry
GetByPubkeyFetch ==
    /\ pc = "fetch"
    /\ ret' = [found |-> TRUE,
               nil |-> args.index \notin DOMAIN allValidators.validators]
    /\ pc' = "unlock"
    /\ UNCHANGED <<clock, ctx, ready, slot, iter, watched, duties,
                   counterState, exported, allValidators, bg, obs, args>>

\* the deferred av.mu.RUnlock()
GetByPubkeyUnlock ==
    /\ pc = "unlock"
    /\ args' = [args EXCEPT !.mu.readers = @ - 1]
    /\ pc' = "idle"
    /\ UNCHANGED <<clock, ctx, ready, slot, iter, watched, duties,
                   counterState, exported, allValidators, bg, obs, ret>>

NextAllValidators ==
    \/ AllUpdateLock
    \/ AllUpdateClearValidators
    \/ AllUpdateClearPubkeyMap
    \/ AllUpdateStoreValidator
    \/ AllUpdateStorePubkey
    \/ AllUpdateUnlock
    \/ GetByPubkeyLock
    \/ GetByPubkeyLookup
    \/ GetByPubkeyFetch
    \/ GetByPubkeyUnlock

SpecAllValidators == InitAllValidators /\ [][NextAllValidators]_vars

\* the two maps are those of a whole Update
WholeRegistry(reg) ==
    \E validators \in UpdateSlices : reg = InstallAll(NewAllValidators, validators)

\* C29: Update replaces the index map and the pubkey map as one: a reader
\* inside GetByPubkey sees the two maps of one whole Update, the same from
\* its RLock to its RUnlock, and GetByPubkey never reports a pubkey as
\* found while its validator is missing from the index map.
C29_UpdateAtomic ==
    [][/\ pc' # "idle" => WholeRegistry(allValidators')
       /\ (pc # "idle" /\ pc' # "idle") => allValidators' = allValidators
       /\ ret'.found => ~ret'.nil]_vars

\* a GetByPubkey found a validator in the maps of a second Update, while
\* the goroutine of a third waits for the lock
C29_Witness ==
    /\ pc = "unlock"
    /\ ret.found
    /\ args.pubkey = "pk1"
    /\ allValidators.validators[1].Status = "exited_unslashed"
    /\ bg = "idle"

(***************************************************************************)
(* ComputeMetrics: the workers and the merge loop                          *)
(***************************************************************************)
MaxMerged == 6

MergeWorkers == 3

\* two watched validators: an active one with duties, misses and rewards,
\* an exited one under two labels
MergePool ==
    {[NewWatchedValidator(NetworkValidator(0, "active_ongoing", 32),
                          [PublicKey |-> "pk0", Labels |-> <<"operator:a">>])
         EXCEPT !.MissedAttestations = 2, !.ConsecutiveMissedAttest = 3,
                !.AttestationDuties = 4, !.AttestationDutiesSuccess = 1,
                !.MissedBlocks = 1,
                !.IdealConsensusRewards = 10, !.ConsensusRewards = 7],
     [NewWatchedValidator(NetworkValidator(1, "exited_unslashed", 16),
                          [PublicKey |-> "pk1",
                           Labels |-> <<"operator:a", "operator:b">>])
         EXCEPT !.MissedAttestations = 1, !.ConsecutiveMissedAttest = 5,
                !.ProposedBlocks = 2]}

\* the slices ComputeMetrics is called with: entry k has index k
MergeInputs ==
    {[k \in DOMAIN r |-> [r[k] EXCEPT !.Index = k]] :
        r \in SeqsUpTo(MergePool, MaxMerged)}

\* args is the call, ret the channel of the worker results, the workers
\* that have sent theirs, in the order they did, and the final map
InitMerge ==
    /\ pc = "merging"
    /\ args \in [validators : MergeInputs, numWorkers : 1..MergeWorkers]
    /\ ret = [channel |-> <<>>, sent |-> <<>>, finalMetrics |-> <<>>]
    /\ slot = 0 /\ iter = 0 /\ watched = <<>> /\ duties = <<>>
    /\ counterState = <<>> /\ exported = <<>> /\ allValidators = <<>>
    /\ bg = 0 /\ obs = NoObs
    /\ clock = <<NewBeaconClock>> /\ ctx = FALSE /\ ready = FALSE

\* a worker ends its chunk: resultsChan <- workerResult{metrics: localMetrics};
\* the channel has room for every worker, and the workers end in any order
WorkerSend ==
    /\ pc = "merging"
    /\ LET chunks == Chunks(args.validators, args.numWorkers) IN
       \E k \in (1..Len(chunks)) \ Range(ret.sent) :
          ret' = [ret EXCEPT !.channel = Append(@, ReduceChunk(<<>>, chunks[k])),
                             !.sent = Append(@, k)]
    /\ UNCHANGED <<clock, ctx, ready, pc, slot, iter, watched, duties,
                   counterState, exported, allValidators, bg, obs, args>>

\* for result := range resultsChan: one result merged into finalMetrics
MergeReceive ==
    /\ pc = "merging"
    /\ ret.channel # <<>>
    /\ ret' = [ret EXCEPT
                 !.channel = Tail(@),
                 !.finalMetrics = MergeResult(@, Head(ret.channel),
                                              DOMAIN Head(ret.channel))]
    /\ UNCHANGED <<clock, ctx, ready, pc, slot, iter, watched, duties,
                   counterState, exported, allValidators, bg, obs, args>>

\* wg.Wait() and close(resultsChan) end the loop; the rates, and the return
MergeReturn ==
    /\ pc = "merging"
    /\ ret.channel = <<>>
    /\ Len(ret.sent) = Len(Chunks(args.validators, args.numWorkers))
    /\ ret' = [ret EXCEPT !.finalMetrics =
                 [label \in DOMAIN @ |-> CalculateRates(@[label])]]
    /\ pc' = "computed"
    /\ UNCHANGED <<clock, ctx, ready, slot, iter, watched, duties,
                   counterState, exported, allValidators, bg, obs, args>>

NextMerge == WorkerSend \/ MergeReceive \/ MergeReturn

SpecMerge == InitMerge /\ [][NextMerge]_vars

\* one reduction of the whole slice by a single loop, then the rates
SequentialReduction(validators) ==
    LET m == ReduceChunk(<<>>, validators)
    IN [label \in DOMAIN m |-> CalculateRates(m[label])]

\* the lists of examples of a record, and its other fields
ExampleLists ==
    {"MissedAttestationDetails", "SuboptimalSourceDetails",
     "SuboptimalTargetDetails", "SuboptimalHeadDetails", "MissedBlockDetails"}

ValueFields == DOMAIN EmptyMetrics("") \ ExampleLists

\* C30: whatever the slice, the number of workers and the order in which
\* they finish, ComputeMetrics returns the labels of one sequential
\* reduction and, for each, the same scalar, status-keyed and type-keyed
\* values; max_consecutive_missed is the largest value among the
\* validators of the label; no list of examples has more than 5 entries.
C30_MergeIsSequential ==
    pc = "computed" =>
       LET final == ret.finalMetrics
           sequential == SequentialReduction(args.validators)
       IN /\ DOMAIN final = DOMAIN sequential
          /\ \A label \in DOMAIN final :
                /\ \A f \in ValueFields : final[label][f] = sequential[label][f]
                /\ \A k \in Bearing(args.validators, label) :
                      final[label].MaxConsecutiveMissed
                         >= args.validators[k].ConsecutiveMissedAttest
                /\ \E k \in Bearing(args.validators, label) :
                      final[label].MaxConsecutiveMissed
                         = args.validators[k].ConsecutiveMissedAttest
                /\ \A l \in ExampleLists : Len(final[label][l]) <= 5

\* six validators on three workers that finished last, first, second: the
\* list of examples of scope:watched is full, one candidate was left out
C30_Witness ==
    /\ pc = "computed"
    /\ Len(args.validators) = 6
    /\ args.numWorkers = 3
    /\ ret.sent = <<3, 1, 2>>
    /\ Len(ret.finalMetrics["scope:watched"].MissedAttestationDetails) = 5
    /\ \A k \in 1..6 : args.validators[k].MissedAttestations > 0
    /\ ret.finalMetrics["operator:a"].StatusCounts["exited_unslashed"] >= 1

(***************************************************************************)
(* The proposer schedule over several epochs: processEpoch fills it,       *)
(* processBlock reads it, cleanup prunes it                                *)
(***************************************************************************)
\* the last slot the clock shows before the run is cut
MaxSlot == 170

\* Schedule.GetProposer: <<>> for ok = false, <<index>> otherwise
GetProposer(sched, s) == IF s \in DOMAIN sched THEN <<sched[s]>> ELSE <<>>

\* the state after initialize: an empty schedule (NewSchedule), no request
\* made yet, no cleanup yet
InitSchedule ==
    /\ pc = "top"
    /\ slot \in StartSlots
    /\ iter = 0
    /\ duties = <<>>
    /\ obs = [served |-> TRUE, epoch |-> <<>>]
    /\ args = <<>>
    /\ ret = <<>>
    /\ watched = <<>>
    /\ counterState = <<>>
    /\ exported = <<>>
    /\ allValidators = <<>>
    /\ bg = 0
    /\ clock = <<NewBeaconClock>>
    /\ ctx = FALSE
    /\ ready = TRUE

\* the head of the loop: currentSlot := w.clock.CurrentSlot()
ScheduleTop ==
    /\ pc = "top"
    /\ pc' = IF IsFirstSlotOfEpoch(slot) THEN "epoch" ELSE "block"
    /\ UNCHANGED <<clock, ctx, ready, slot, iter, watched, duties,
                   counterState, exported, allValidators, bg, obs, args, ret>>

\* processEpoch: proposerSchedule.Update for the epoch and for the next; a
\* failed request leaves the map as it is
ScheduleEpoch ==
    /\ pc = "epoch"
    /\ \E d1 \in DutyResponses(SlotToEpoch(slot)),
          d2 \in DutyResponses(SlotToEpoch(slot) + 1) :
         /\ duties' = ScheduleUpdate(ScheduleUpdate(duties, d1.data), d2.data)
         /\ obs' = [served |-> obs.served /\ d1.ok /\ d2.ok,
                    epoch |-> <<SlotToEpoch(slot)>>]
    /\ pc' = "block"
    /\ UNCHANGED <<clock, ctx, ready, slot, iter, watched, counterState,
                   exported, allValidators, bg, args, ret>>

\* processBlock on a missing block: proposerSchedule.GetProposer(slot)
ScheduleBlock ==
    /\ pc = "block"
    /\ ret' = GetProposer(duties, slot)
    /\ pc' = "wait"
    /\ UNCHANGED <<clock, ctx, ready, slot, iter, watched, duties,
                   counterState, exported, allValidators, bg, obs, args>>

\* WaitUntilNextSlot returns, cleanup(currentSlot) runs, and the clock shows
\* a later slot when the loop reads it again
ScheduleWait ==
    /\ pc = "wait"
    /\ \E advance \in 1..MaxAdvance :
         /\ slot + advance <= MaxSlot
         /\ slot' = slot + advance
    /\ duties' = ScheduleCleanup(duties, CleanupSlot(slot))
    /\ args' = <<slot>>
    /\ pc' = "top"
    /\ UNCHANGED <<clock, ctx, ready, iter, watched, counterState, exported,
                   allValidators, bg, obs, ret>>

NextSchedule == ScheduleTop \/ ScheduleEpoch \/ ScheduleBlock \/ ScheduleWait

SpecSchedule == InitSchedule /\ [][NextSchedule]_vars

\* the epochs the slots of the map belong to
EpochsHeld == {SlotToEpoch(t) : t \in DOMAIN duties}

\* cleanup(S) has run, S = args[1] being the slot of the latest call
Cleaned == args # <<>>

DutiesServed == obs.served

\* C32 as stated: at every slot the loop processes, from the first
\* iteration after start-up on, the schedule holds the proposer of that slot
\* whenever the beacon node serves the proposer-duties requests.
C32_ScheduleCoversProcessedSlot ==
    (pc = "block" /\ DutiesServed) =>
        GetProposer(duties, slot) = <<ScheduledProposer(slot)>>

\* what the code ensures: the schedule holds the proposer of the slot when
\* processEpoch ran, all its requests served, at the first slot of the
\* epoch of the slot or of the epoch before
C32_CoveredAfterProcessEpoch ==
    (/\ pc = "block"
     /\ DutiesServed
     /\ obs.epoch # <<>>
     /\ SlotToEpoch(slot) - obs.epoch[1] <= 1) =>
        GetProposer(duties, slot) = <<ScheduledProposer(slot)>>

(***************************************************************************)
(* WatchedValidators: Update, UpdateMetrics and GetByLabel on the          *)
(* validators map and the label index                                      *)
(***************************************************************************)
\* wv.labels[label] = append(wv.labels[label], idx)
AppendIndex(labels, label, idx) ==
    IF label \in DOMAIN labels
    THEN [labels EXCEPT ![label] = Append(@, idx)]
    ELSE (label :> <<idx>>) @@ labels

\* for _, label := range labels { ... }
RECURSIVE IndexUnder(_, _, _)
IndexUnder(labels, list, idx) ==
    IF list = <<>> THEN labels
    ELSE IndexUnder(AppendIndex(labels, Head(list), idx), Tail(list), idx)

\* the loop of Update over the given validators, as far as wv.labels goes:
\* an entry per label of each validator that is configured, in slice order
RECURSIVE IndexValidators(_, _, _)
IndexValidators(labels, validators, cm) ==
    IF validators = <<>> THEN labels
    ELSE LET v == Head(validators) IN
         IF v.Pubkey \notin DOMAIN cm
         THEN IndexValidators(labels, Tail(validators), cm)
         ELSE IndexValidators(IndexUnder(labels, BuildLabels(cm[v.Pubkey]), v.Index),
                              Tail(validators), cm)

\* for idx := range wv.validators: scope:network gets every index of the
\* map, in the order the map yields them
RECURSIVE IndexNetwork(_, _)
IndexNetwork(labels, order) ==
    IF order = <<>> THEN labels
    ELSE IndexNetwork(AppendIndex(labels, "scope:network", Head(order)), Tail(order))

\* wv.labels after Update
LabelIndex(validators, config, order) ==
    IndexNetwork(IndexValidators(<<>>, validators, ConfigMap(config)), order)

\* the orders in which a range over a map of these keys can yield them
MapOrders(keys) ==
    {o \in [1..Cardinality(keys) -> keys] :
        \A a, b \in 1..Cardinality(keys) : a # b => o[a] # o[b]}

\* WatchedValidators.GetByLabel: nil (the empty slice) for a label without
\* entry, otherwise the validator of every index of the list that is held
GetByLabel(reg, label) ==
    IF label \notin DOMAIN reg.labels THEN <<>>
    ELSE LET indices == reg.labels[label]
             held == SelectSeq(indices, LAMBDA idx : idx \in DOMAIN reg.validators)
         IN [k \in 1..Len(held) |-> reg.validators[held[k]]]

\* NewWatchedValidators
NewWatchedValidators == [validators |-> <<>>, labels |-> <<>>]

\* the slices handed to Update: a head state, a part of it, one that gives
\* a validator twice, none
UpdateInputs ==
    {<<>>, InitialSnapshot, <<InitialSnapshot[2]>>,
     <<InitialSnapshot[1], LaterSnapshot[2], InitialSnapshot[1]>>}

\* the labels GetByLabel is asked for
AskedLabels ==
    {"scope:watched", "scope:network", "operator:a", "team:x", "team:none"}

\* the closures of the passes
WatchedClosures == {"MissedBlock", "MissedAttestation"}

ApplyClosure(fn, wv) ==
    IF fn = "MissedBlock" THEN MarkMissedBlock(wv)
    ELSE MarkMissedAttestation(wv)

\* the counter a closure increments
ClosureCounter(fn) ==
    IF fn = "MissedBlock" THEN "MissedBlocks" ELSE "AttestationDuties"

\* the counters of a watched validator
ValidatorCounters ==
    {"MissedAttestations", "SuboptimalSourceVotes", "SuboptimalTargetVotes",
     "SuboptimalHeadVotes", "IdealConsensusRewards", "ConsensusRewards",
     "ProposedBlocks", "ProposedBlocksFinalized", "MissedBlocks",
     "MissedBlocksFinalized", "FutureBlockProposals", "AttestationDuties",
     "AttestationDutiesSuccess", "ConsecutiveMissedAttest"}

\* an empty registry, no call made yet
InitWatched ==
    /\ pc = "new"
    /\ watched = NewWatchedValidators
    /\ args = <<>>
    /\ ret = <<>>
    /\ slot = 0
    /\ iter = 0
    /\ duties = <<>>
    /\ counterState = <<>>
    /\ exported = <<>>
    /\ allValidators = <<>>
    /\ bg = 0
    /\ obs = NoObs
    /\ clock = <<NewBeaconClock>>
    /\ ctx = FALSE
    /\ ready = TRUE

\* Update(validators, config); args keeps the inputs of the call and what
\* the registry held before it
WatchedCallUpdate ==
    /\ \E validators \in UpdateInputs, config \in RegistryConfigs :
         \E reg \in {WatchedUpdate(validators, config)} :
            \E order \in MapOrders(DOMAIN reg) :
               /\ watched' = [validators |-> reg,
                              labels |-> LabelIndex(validators, config, order)]
               /\ args' = [validators |-> validators, config |-> config,
                           held |-> DOMAIN watched.validators,
                           counted |-> {i \in DOMAIN watched.validators :
                                          \E c \in ValidatorCounters :
                                             watched.validators[i][c] # 0}]
    /\ pc' = "updated"
    /\ ret' = <<>>
    /\ UNCHANGED <<clock, ctx, ready, slot, iter, duties, counterState,
                   exported, allValidators, bg, obs>>

\* UpdateMetrics(index, fn) with one of the closures of the passes
WatchedCallUpdateMetrics ==
    /\ pc # "new"
    /\ \E index \in ValidatorIndices, fn \in WatchedClosures :
         /\ index \in DOMAIN watched.validators =>
               watched.validators[index][ClosureCounter(fn)] < MaxDuties
         /\ watched' = [watched EXCEPT !.validators =
               UpdateMetrics(@, index,
                  [i \in DOMAIN @ |-> ApplyClosure(fn, @[i])])]
    /\ pc' = "mutated"
    /\ ret' = <<>>
    /\ UNCHANGED <<clock, ctx, ready, slot, iter, duties, counterState,
                   exported, allValidators, bg, obs, args>>

\* GetByLabel(label)
WatchedCallGetByLabel ==
    /\ pc # "new"
    /\ \E label \in AskedLabels :
         ret' = [label |-> label, result |-> GetByLabel(watched, label)]
    /\ pc' = "read"
    /\ UNCHANGED <<clock, ctx, ready, slot, iter, watched, duties,
                   counterState, exported, allValidators, bg, obs, args>>

NextWatched ==
    WatchedCallUpdate \/ WatchedCallUpdateMetrics \/ WatchedCallGetByLabel

SpecWatched == InitWatched /\ [][NextWatched]_vars

\* the positions of the given slice whose pubkey is configured
Configured(validators, config) ==
    {k \in 1..Len(validators) :
        \E c \in 1..Len(config) : config[c].PublicKey = validators[k].Pubkey}

\* C33: right after Update(validators, config) the registry holds exactly
\* the given validators whose pubkey is among the configured keys, each
\* with the data given for it, every counter at zero and a weight of
\* effective_balance / 32 ETH; the label index lists these validators only
\* and lists each under every one of its labels and under scope:network;
\* nothing of the previous contents is left.
C33_UpdateRebuilds ==
    pc = "updated" =>
       LET reg == watched.validators
           given == args.validators
           kept == Configured(given, args.config)
       IN /\ DOMAIN reg = {given[k].Index : k \in kept}
          /\ \A i \in DOMAIN reg :
                /\ \E k \in kept :
                      /\ given[k].Index = i
                      /\ reg[i].Pubkey = given[k].Pubkey
                      /\ reg[i].Status = given[k].Status
                      /\ reg[i].EffectiveBalance = given[k].EffectiveBalance
                /\ \A c \in ValidatorCounters : reg[i][c] = 0
                /\ reg[i].Weight * FullStakeEth
                      = reg[i].EffectiveBalance * WeightScale
          /\ \A l \in DOMAIN watched.labels :
                Range(watched.labels[l]) \subseteq DOMAIN reg
          /\ \A i \in DOMAIN reg :
                /\ \A k \in 1..Len(reg[i].Labels) :
                      /\ reg[i].Labels[k] \in DOMAIN watched.labels
                      /\ i \in Range(watched.labels[reg[i].Labels[k]])
                /\ i \in Range(watched.labels["scope:network"])
          /\ \A l \in DOMAIN watched.labels \ {"scope:network"} :
                \A i \in Range(watched.labels[l]) : l \in Range(reg[i].Labels)

\* an Update that dropped a watched validator and the counters of another:
\* validators 0 and 1 were held, both with a counter above zero, and the
\* call was given validator 1 alone
C33_Witness ==
    /\ pc = "updated"
    /\ args.held = {0, 1}
    /\ args.counted = {0, 1}
    /\ DOMAIN watched.validators = {1}
    /\ watched.validators[1].Weight = 1
    /\ "operator:a" \notin DOMAIN watched.labels

\* how many entries of a list of watched validators carry the index i
TimesReturned(result, i) ==
    Cardinality({k \in 1..Len(result) : result[k].Index = i})

\* how many times the label occurs in a label list
Occurrences(labels, l) == Cardinality({k \in 1..Len(labels) : labels[k] = l})

\* C39 as stated: after any Update, for every label l, GetByLabel(l)
\* returns each watched validator whose label set contains l exactly once
\* and no validator whose label set lacks l, also when a configured label
\* is repeated or is a scope label.
C39_IndexAgreesWithLabels ==
    pc # "new" =>
       \A l \in DOMAIN watched.labels \cup AskedLabels :
          \A i \in DOMAIN watched.validators :
             TimesReturned(GetByLabel(watched, l), i)
                = IF l \in Range(watched.validators[i].Labels) THEN 1 ELSE 0

\* what the code ensures: GetByLabel(l) returns a validator once per
\* occurrence of l in its label list and per entry of the given slice with
\* its index, and scope:network returns every validator once on top of that
C39_IndexCountsOccurrences ==
    pc # "new" =>
       \A l \in DOMAIN watched.labels \cup AskedLabels :
          \A i \in DOMAIN watched.validators :
             TimesReturned(GetByLabel(watched, l), i)
                = Occurrences(watched.validators[i].Labels, l)
                     * Cardinality({k \in Configured(args.validators, args.config) :
                                       args.validators[k].Index = i})
                  + (IF l = "scope:network" THEN 1 ELSE 0)

(***************************************************************************)
(* processRewards over several epochs                                      *)
(***************************************************************************)
\* the reward passes of a run
MaxPasses == 4

\* the watched registry as processEpoch left it, no reward pass made yet
InitRewardPasses ==
    /\ pc = "loop"
    /\ \E sn \in BeaconSnapshots : watched = WatchedUpdate(sn, WatchedKeys)
    /\ iter = 0
    /\ args = <<>>
    /\ ret = <<>>
    /\ slot = 0
    /\ duties = <<>>
    /\ counterState = <<>>
    /\ exported = <<>>
    /\ allValidators = <<>>
    /\ bg = 0
    /\ obs = NoObs
    /\ clock = <<NewBeaconClock>>
    /\ ctx = FALSE
    /\ ready = TRUE

\* processRewards(epoch): the balances of the watched validators, GetRewards,
\* ProcessRewards, then UpdateMetrics for every entry of rewardData; args
\* keeps the answer of the beacon node
RewardPass ==
    /\ pc = "loop"
    /\ iter < MaxPasses
    /\ iter' = iter + 1
    /\ \E resp \in RewardsResponses :
         /\ args' = resp
         /\ IF DOMAIN watched = {} \/ ~resp.ok
            THEN UNCHANGED watched
            ELSE LET validatorBalances ==
                         [i \in DOMAIN watched |-> watched[i].EffectiveBalance]
                     rewardData == ProcessRewards(resp.data, validatorBalances)
                 IN watched' = [i \in DOMAIN watched |->
                                  IF i \in DOMAIN rewardData
                                  THEN ApplyReward(watched[i], rewardData[i])
                                  ELSE watched[i]]
    /\ UNCHANGED <<clock, ctx, ready, pc, slot, duties, counterState,
                   exported, allValidators, bg, obs, ret>>

NextRewardPasses == RewardPass

SpecRewardPasses == InitRewardPasses /\ [][NextRewardPasses]_vars

\* 1 for a set flag
Flag(b) == IF b THEN 1 ELSE 0

\* C34: a reward pass whose request succeeded overwrites
\* ideal_consensus_rewards and consensus_rewards of every watched validator
\* the answer has a total for with the sums of that epoch's ideal and actual
\* components, and adds 1 to each suboptimal counter whose actual component
\* is below the ideal one and 0 to the others; nothing else of that
\* validator changes, and a watched validator without total in the answer
\* keeps every field; a failed request changes nothing.
C34_RewardDiffApplied ==
    [][IF ~args'.ok THEN watched' = watched
       ELSE /\ DOMAIN watched' = DOMAIN watched
            /\ \A i \in DOMAIN watched :
                 LET totals == EntriesOf(args'.data.TotalRewards, "ValidatorIndex", i)
                     ideal == ExpectedIdeal(args'.data.IdealRewards,
                                            watched[i].EffectiveBalance)
                 IN IF totals = {} THEN watched'[i] = watched[i]
                    ELSE \A total \in totals :
                           watched'[i] =
                              [watched[i] EXCEPT
                                 !.IdealConsensusRewards =
                                    ideal.Source + ideal.Target + ideal.Head,
                                 !.ConsensusRewards =
                                    total.Source + total.Target + total.Head,
                                 !.SuboptimalSourceVotes =
                                    @ + Flag(total.Source < ideal.Source),
                                 !.SuboptimalTargetVotes =
                                    @ + Flag(total.Target < ideal.Target),
                                 !.SuboptimalHeadVotes =
                                    @ + Flag(total.Head < ideal.Head)]]_vars

\* the second pass of a run: validator 0 still has the target flag of the
\* first pass, whose ideal total was 3, and now holds the totals 6 and 6 of
\* this epoch; validator 1 was reported for the first time, below the ideal
\* on head and source
C34_Witness ==
    /\ iter = 2
    /\ args.ok
    /\ Len(args.data.TotalRewards) = 2
    /\ watched[0].SuboptimalTargetVotes = 1
    /\ watched[0].IdealConsensusRewards = 6
    /\ watched[0].ConsensusRewards = 6
    /\ watched[1].SuboptimalHeadVotes = 1
    /\ watched[1].SuboptimalSourceVotes = 1
    /\ watched[1].SuboptimalTargetVotes = 0
    /\ watched[1].ConsensusRewards = 2

(***************************************************************************)
(* Block events and the exported block counters across an epoch boundary   *)
(***************************************************************************)
\* the iterations of a run
MaxCountIter == 4

\* the slot the run starts at: two slots before an epoch boundary
CountStartSlot == 30

\* the watched registry and the full set as initialize loaded them, nothing
\* published yet; the schedule is empty, or holds the duties of epoch 0
\* when the run began at its first slot and no block event was attributed
\* since; ret counts the block events attributed to watched validators
\* since the start
InitBlockCount ==
    /\ pc = "top"
    /\ slot = CountStartSlot
    /\ iter = 0
    /\ allValidators = InitialSnapshot
    /\ watched = WatchedUpdate(InitialSnapshot, WatchedKeys)
    /\ \E d \in DutyResponses(0) : duties = ScheduleUpdate(<<>>, d.data)
    /\ counterState = <<>>
    /\ exported = <<>>
    /\ ret = [proposed |-> 0, missed |-> 0]
    /\ args = <<>>
    /\ bg = 0
    /\ obs = NoObs
    /\ clock = <<NewBeaconClock>>
    /\ ctx = FALSE
    /\ ready = TRUE

\* the head of the loop
CountTop ==
    /\ pc = "top"
    /\ pc' = IF IsFirstSlotOfEpoch(slot) THEN "epoch" ELSE "block"
    /\ UNCHANGED <<clock, ctx, ready, slot, iter, watched, duties,
                   counterState, exported, allValidators, bg, obs, args, ret>>

\* processEpoch: the watched registry is rebuilt from GetValidators, the
\* proposer duties of the epoch and the next are fetched
CountEpoch ==
    /\ pc = "epoch"
    /\ \E vresp \in ValidatorResponses,
          d1 \in DutyResponses(SlotToEpoch(slot)),
          d2 \in DutyResponses(SlotToEpoch(slot) + 1) :
         LET watchedIndices == WatchedIndices(allValidators, WatchedKeys) IN
         IF watchedIndices # {} /\ ~vresp.ok
         THEN /\ UNCHANGED <<watched, duties>>
              /\ args' = [rebuilt |-> FALSE]
         ELSE /\ watched' =
                   IF watchedIndices = {} THEN watched
                   ELSE WatchedUpdate(SelectByIndex(vresp.data, watchedIndices),
                                      WatchedKeys)
              /\ duties' = ScheduleUpdate(ScheduleUpdate(duties, d1.data), d2.data)
              /\ args' = [rebuilt |-> watchedIndices # {}]
    /\ pc' = "block"
    /\ UNCHANGED <<clock, ctx, ready, slot, iter, counterState, exported,
                   allValidators, bg, obs, ret>>

\* processBlock: a missing block debits the scheduled proposer, a block
\* credits its proposer_index, when that validator is watched; ret counts
\* the event
CountBlock ==
    /\ pc = "block"
    /\ \E resp \in BlockResponses :
         IF ~resp.ok
         THEN IF slot \in DOMAIN duties
              THEN /\ watched' = UpdateMetrics(watched, duties[slot],
                         [i \in DOMAIN watched |-> MarkMissedBlock(watched[i])])
                   /\ ret' = IF duties[slot] \in DOMAIN watched
                             THEN [ret EXCEPT !.missed = @ + 1] ELSE ret
              ELSE UNCHANGED <<watched, ret>>
         ELSE /\ watched' = UpdateMetrics(watched, resp.proposer,
                     [i \in DOMAIN watched |-> MarkProposed(watched[i])])
              /\ ret' = IF resp.proposer \in DOMAIN watched
                        THEN [ret EXCEPT !.proposed = @ + 1] ELSE ret
    /\ pc' = "metrics"
    /\ UNCHANGED <<clock, ctx, ready, slot, iter, duties, counterState,
                   exported, allValidators, bg, obs, args>>

\* updateMetrics: the aggregation and the exposition's UpdateMetrics
CountPublish ==
    /\ pc = "metrics"
    /\ \E numWorkers \in 1..MaxWorkers :
         \E metricsByLabel \in {MetricsByLabel(watched, allValidators, numWorkers)} :
            /\ counterState' = NextCounterState(counterState, metricsByLabel)
            /\ exported' = NextExported(counterState, exported, metricsByLabel)
    /\ pc' = "wait"
    /\ UNCHANGED <<clock, ctx, ready, slot, iter, watched, duties,
                   allValidators, bg, obs, args, ret>>

\* WaitUntilNextSlot, cleanup, and the next reading of the clock
CountWait ==
    /\ pc = "wait"
    /\ iter < MaxCountIter
    /\ iter' = iter + 1
    /\ \E advance \in 1..MaxAdvance : slot' = slot + advance
    /\ duties' = ScheduleCleanup(duties, CleanupSlot(slot))
    /\ args' = <<>>
    /\ pc' = "top"
    /\ UNCHANGED <<clock, ctx, ready, watched, counterState, exported,
                   allValidators, bg, obs, ret>>

NextBlockCount == CountTop \/ CountEpoch \/ CountBlock \/ CountPublish \/ CountWait

SpecBlockCount == InitBlockCount /\ [][NextBlockCount]_vars

\* the exported value of a block counter of scope:watched
ExportedWatched(c) ==
    IF WatchedScope \in DOMAIN exported THEN exported[WatchedScope][c] ELSE 0

\* C35 as stated: after every publish the exported proposed and missed
\* block counters of scope:watched equal the numbers of proposed and missed
\* block events attributed to watched validators since the start, also
\* across a rebuild of the registry at an epoch boundary and when a block is
\* attributed in the iteration of the rebuild.
C35_ExportedCountsEveryEvent ==
    pc = "wait" =>
       /\ ExportedWatched("ProposedBlocks") = ret.proposed
       /\ ExportedWatched("MissedBlocks") = ret.missed

\* what the code ensures: the exported counters never exceed the events,
\* and equal them as long as no block was attributed in an iteration that
\* rebuilt the registry
C35_ExportedAtMostEvents ==
    /\ ExportedWatched("ProposedBlocks") <= ret.proposed
    /\ ExportedWatched("MissedBlocks") <= ret.missed

(***************************************************************************)
(* The live loop against the wall clock                                    *)
(***************************************************************************)
DefaultSlotLagSeconds == 8

\* the wall-clock second at which the run is cut
MaxWall == 130

\* SlotEndTime(slot): the end of the slot plus the lag for attestations
SlotEndTime(c, s) ==
    c.genesisTime + s * SecondsPerSlot + SecondsPerSlot + DefaultSlotLagSeconds

\* WaitUntilSlot(ctx, slot) entered at the second now, the context not
\* cancelled: the second at which it returns
WaitUntilSlot(c, now, s) ==
    IF c.replayMode THEN now
    ELSE IF now < SlotEndTime(c, s) THEN SlotEndTime(c, s)
    ELSE now

\* WaitUntilNextSlot(ctx): currentSlot := c.CurrentSlot(), then
\* WaitUntilSlot(ctx, currentSlot)
WaitUntilNextSlot(c, now) == WaitUntilSlot(c, now, CurrentSlot(c, now))

\* the seconds the work of one iteration takes: within the four seconds
\* that are left of the slot after the lag, or past them
WorkSeconds == {0, 1, 5, 13}

\* the seconds at which Run reaches the loop: before genesis, at the start
\* of a slot, inside a slot
LiveStarts == {GenesisTime - 3, GenesisTime + 12, GenesisTime + 31}

\* a live clock; args.now is the second the wall clock shows, ret the slots
\* the loop has processed, in order
InitLive ==
    /\ pc = "top"
    /\ clock = <<NewBeaconClock>>
    /\ args \in [now : LiveStarts]
    /\ ret = <<>>
    /\ slot = 0
    /\ iter = 0
    /\ watched = <<>>
    /\ duties = <<>>
    /\ counterState = <<>>
    /\ exported = <<>>
    /\ allValidators = <<>>
    /\ bg = 0
    /\ obs = NoObs
    /\ ctx = FALSE
    /\ ready = TRUE

\* the head of the loop: currentSlot := w.clock.CurrentSlot()
LiveTop ==
    /\ pc = "top"
    /\ slot' = CurrentSlot(clock[1], args.now)
    /\ ret' = Append(ret, CurrentSlot(clock[1], args.now))
    /\ pc' = "work"
    /\ UNCHANGED <<clock, ctx, ready, iter, watched, duties, counterState,
                   exported, allValidators, bg, obs, args>>

\* the passes of the iteration and updateMetrics, which take their time
LiveWork ==
    /\ pc = "work"
    /\ \E d \in WorkSeconds :
         /\ args.now + d <= MaxWall
         /\ args' = [now |-> args.now + d]
    /\ pc' = "wait"
    /\ UNCHANGED <<clock, ctx, ready, slot, iter, watched, duties,
                   counterState, exported, allValidators, bg, obs, ret>>

\* WaitUntilNextSlot, then cleanup and the jump to the head of the loop
LiveWait ==
    /\ pc = "wait"
    /\ WaitUntilNextSlot(clock[1], args.now) <= MaxWall
    /\ args' = [now |-> WaitUntilNextSlot(clock[1], args.now)]
    /\ pc' = "top"
    /\ UNCHANGED <<clock, ctx, ready, slot, iter, watched, duties,
                   counterState, exported, allValidators, bg, obs, ret>>

NextLive == LiveTop \/ LiveWork \/ LiveWait

SpecLive == InitLive /\ [][NextLive]_vars

\* C36 as stated: in live mode the loop processes every slot from its
\* first slot on exactly once and in increasing order, none twice and none
\* skipped, also when the work of an iteration lasts past the end of the
\* slot it is processing.
C36_EverySlotOnce ==
    \A k \in 1..(Len(ret) - 1) : ret[k + 1] = ret[k] + 1

\* what the code ensures: the slots processed increase strictly, so that
\* none is processed twice
C36_NoSlotTwice ==
    \A k \in 1..(Len(ret) - 1) : ret[k + 1] > ret[k]

(***************************************************************************)
(* The epoch of the liveness request                                       *)
(***************************************************************************)
\* the liveness pass has just made its request
LivenessRequested ==
    pc = "liveness" /\ obs'.step = "liveness" /\ obs'.requests # {}

\* C37 as stated: the epoch handed to the liveness request at position 16
\* is strictly below the current epoch; in epoch 0 the subtraction
\* current_epoch - 1 does not wrap to 2^64 - 1 and no liveness request is
\* made for such an epoch.
C37_LivenessEpochBelowCurrent ==
    [][LivenessRequested =>
          \A r \in obs'.requests :
             /\ r.kind = "liveness"
             /\ ~r.epoch.wrapped
             /\ r.epoch.value < SlotToEpoch(slot)]_vars

\* what the code ensures: from epoch 1 on the request is made for the epoch
\* before the current one; in epoch 0 it is made for 2^64 - 1
C37_LivenessEpochFromEpochOne ==
    [][LivenessRequested =>
          \A r \in obs'.requests :
             /\ r.kind = "liveness"
             /\ IF SlotToEpoch(slot) >= 1
                THEN ~r.epoch.wrapped /\ r.epoch.value = SlotToEpoch(slot) - 1
                ELSE r.epoch.wrapped /\ r.epoch.value = 1]_vars

(***************************************************************************)
(* The background reloads of the all-validators registry, request by       *)
(* request                                                                 *)
(***************************************************************************)
\* the initial load is installed; iter counts the reloads processEpoch has
\* started, bg holds the ones that are not answered yet, args the answers
\* that are not installed yet, ret the reload whose snapshot the registry
\* holds (0 for the initial load), slot the deposits the head has seen
InitReload ==
    /\ pc = "loop"
    /\ slot = 0
    /\ iter = 0
    /\ bg = {}
    /\ args = <<>>
    /\ ret = 0
    /\ allValidators = HeadSnapshot(0)
    /\ watched = <<>>
    /\ duties = <<>>
    /\ counterState = <<>>
    /\ exported = <<>>
    /\ obs = NoObs
    /\ clock = <<NewBeaconClock>>
    /\ ctx = FALSE
    /\ ready = TRUE

\* processEpoch at the first slot of an epoch: go func() { ... }()
ReloadStart ==
    /\ iter < MaxEpochs
    /\ iter' = iter + 1
    /\ bg' = bg \cup {iter + 1}
    /\ UNCHANGED <<pc, slot, watched, duties, counterState, exported,
                   allValidators, obs, args, ret, clock, ctx, ready>>

\* GetAllValidators of one goroutine returns: an error, which ends the
\* goroutine, or the head state of the moment
ReloadAnswer ==
    /\ \E r \in bg :
         /\ bg' = bg \ {r}
         /\ \/ UNCHANGED args
            \/ args' = (r :> HeadSnapshot(slot)) @@ args
    /\ UNCHANGED <<pc, slot, iter, watched, duties, counterState, exported,
                   allValidators, obs, ret, clock, ctx, ready>>

\* w.allValidators.Update(allVals) of one goroutine that holds its answer
ReloadInstall ==
    /\ \E r \in DOMAIN args :
         /\ allValidators' = args[r]
         /\ ret' = r
         /\ args' = [q \in DOMAIN args \ {r} |-> args[q]]
    /\ UNCHANGED <<pc, slot, iter, watched, duties, counterState, exported,
                   bg, obs, clock, ctx, ready>>

NextReload == HeadAdvances \/ ReloadStart \/ ReloadAnswer \/ ReloadInstall

SpecReload == InitReload /\ [][NextReload]_vars

\* C38 as stated: the snapshots are installed in the order of their
\* requests: the registry never gets the snapshot of an earlier reload
\* after the snapshot of a later one was installed.
C38_InstalledInRequestOrder ==
    [][ret' >= ret]_vars

\* what the code ensures: the registry holds the initial load or the whole
\* answer of one of the reloads started so far
C38_InstalledWholeAnswer ==
    /\ ret \in 0..iter
    /\ \E h \in 0..MaxHead : allValidators = HeadSnapshot(h)
====
